---- MODULE Spec2Model ----
(***************************************************************************)
(* Shopify connector for Odoo: the scheduler's run-once guard              *)
(* (models/scheduler.py, hooks.py) and the upsert of synced entities       *)
(* (models/product.py, order.py, partner.py, webhook.py).                  *)
(*                                                                         *)
(* The persisted store is a keyed store with transactions: a write is      *)
(* pending in the writer's transaction until it is committed, a read sees  *)
(* the committed record overlaid with the reader's own pending writes.     *)
(***************************************************************************)
EXTENDS Integers, Sequences, FiniteSets, TLC

(***************************************************************************)
(* Bounds of the model.                                                    *)
(***************************************************************************)
\* invocations of run_scheduled_sync started in one behaviour
MaxCalls == 2
\* process terminations (plain restarts and restarts with a module install)
MaxRestarts == 1

(***************************************************************************)
(* Scheduler: processes, threads, the schedule's configuration.            *)
(***************************************************************************)
\* worker processes; each has its own module globals (_sync_lock, _running_syncs)
Procs == {"w1", "w2"}

\* threads that may call run_scheduled_sync on the one schedule of the model
\* (cron thread and action_run_now of one process, cron thread of another)
Threads == {"a1", "a2", "b1"}

ProcOf(t) == IF t \in {"a1", "a2"} THEN "w1" ELSE "w2"

\* the sub-syncs in the order run_scheduled_sync tries them
SubSyncOrder ==
  <<"products", "customers", "orders", "inventory",
    "collections", "gift_cards", "locations", "discounts">>

SubSyncs == {SubSyncOrder[k] : k \in 1..Len(SubSyncOrder)}

\* the persisted fields of shopify.scheduler the run reads and writes
Fields == {"is_running", "last_run", "last_run_status", "last_run_message"}

\* a schedule that has never run: is_running default False, last-run fields unset
NewSchedule ==
  [is_running |-> FALSE, last_run |-> 0,
   last_run_status |-> "none", last_run_message |-> <<>>]

\* a transaction with no pending write
NoTx == [dirty |-> {}, vals |-> NewSchedule]

VARIABLES
  running_syncs,  \* [Procs -> BOOLEAN]: _running_syncs[scheduler_key] of each process
  db,             \* the committed shopify.scheduler record
  tx,             \* [Threads -> pending writes of the thread's transaction]
  pc,             \* [Threads -> position in run_scheduled_sync]
  idx,            \* [Threads -> index in SubSyncOrder of the next sub-sync]
  results,        \* [Threads -> sequence of [sync, ok]]: sub-syncs called so far
  outcome,        \* [Threads -> how the invocation ended]
  enabled,        \* the sync_* flags that are set on the schedule
  clock,          \* fields.Datetime.now(), as a counter of recorded runs
  calls,          \* invocations started
  restarts,       \* process terminations so far
  staleFromCrash  \* the processes started again after they terminated in a run
                  \* whose is_running = True is still in the committed record

schedVars ==
  <<running_syncs, db, tx, pc, idx, results, outcome, enabled, clock, calls,
    restarts, staleFromCrash>>

VARIABLES
  product_template,  \* the product.template records
  res_partner,       \* the res.partner records
  sale_order,        \* the sale.order records, each with its order lines
  sync_log,          \* the shopify.sync.log records, oldest first
  history,           \* the bulk imports since the last other operation
  ops,               \* operations on the store so far
  last,              \* the operation that ran last: its inputs and how it ended
  first_lines,       \* <<order id, lines>> after the import that created the order
  posts              \* <<model, record id, n>>: the n-th create request (POST)
                     \* an export sent upstream for the record

storeVars ==
  <<product_template, res_partner, sale_order, sync_log, history, ops, last,
    first_lines, posts>>

VARIABLES
  fetch              \* the paginated fetch under way: its position, the
                     \* parameters of its next request, the requests sent
                     \* and the responses received

VARIABLES
  run                \* the import under way, record by record: its pages,
                     \* the records of the open transaction, the batches
                     \* committed

VARIABLES
  inv                \* the inventory sync of one location: the requests
                     \* sent, their outcomes, and the location's lines

VARIABLES
  coll               \* the shopify.collection records of one instance: the
                     \* collection synced from upstream with its products,
                     \* and the 'Sync Trigger' records in the store

sideVars == <<fetch, run, inv, coll>>

vars == <<schedVars, storeVars, sideVars>>

(***************************************************************************)
(* Store access.                                                           *)
(***************************************************************************)
\* what thread t reads: the committed record overlaid with its pending writes
View(t) ==
  [f \in Fields |-> IF f \in tx[t].dirty THEN tx[t].vals[f] ELSE db[f]]

\* self.write(w) in the transaction x
WriteTx(x, w) ==
  [dirty |-> x.dirty \cup DOMAIN w,
   vals |-> [f \in Fields |-> IF f \in DOMAIN w THEN w[f] ELSE x.vals[f]]]

(***************************************************************************)
(* run_scheduled_sync, one action per step of the method.                  *)
(***************************************************************************)
\* scheduler.py:144  _running_syncs.get(scheduler_key)
GuardTaken_Never(p) == FALSE

GuardTaken(p) == running_syncs[p]

\* the first enabled sub-sync at index k or later; Len+1 when there is none
\* (the chain of `if self.sync_x:` tests, scheduler.py:167-232)
NextEnabled(k) ==
  LET later == {j \in k..Len(SubSyncOrder) : SubSyncOrder[j] \in enabled}
  IN  IF later = {} THEN Len(SubSyncOrder) + 1
      ELSE CHOOSE j \in later : \A h \in later : j <= h

\* where the run goes after the sub-sync at index k ended with `ok`: each
\* sub-sync has its own try/except, so the next enabled one runs either way
NextIdx_AbortOnFail(k, ok) ==
  IF ok THEN NextEnabled(k + 1) ELSE Len(SubSyncOrder) + 1

NextIdx(k, ok) == NextEnabled(k + 1)

PcAt(k) == IF k > Len(SubSyncOrder) THEN "record" ELSE "sub"

success_messages(r) == SelectSeq(r, LAMBDA e : e.ok)

errors(r) == SelectSeq(r, LAMBDA e : ~e.ok)

\* scheduler.py:240-245
Status_PartialOnAnyError(r) ==
  IF errors(r) # <<>> THEN "partial" ELSE "success"

Status(r) ==
  IF errors(r) # <<>>
    THEN (IF success_messages(r) # <<>> THEN "partial" ELSE "failed")
    ELSE "success"

\* scheduler.py:242,245  the lines of the message, successes first
Message(r) == success_messages(r) \o errors(r)

\* scheduler.py:247-252 and 258-263: the one write that ends a run
CompletionWrite_FlagLeftOut(now, status, message) ==
  [last_run |-> now, last_run_status |-> status, last_run_message |-> message]

CompletionWrite(now, status, message) ==
  [last_run |-> now, last_run_status |-> status, last_run_message |-> message,
   is_running |-> FALSE]

\* is_running is stale from a crash for as long as the committed record keeps it
StaleAfter(newdb, crashed) ==
  IF newdb.is_running THEN staleFromCrash \cup crashed ELSE {}

\* the phases in which a thread has committed is_running = True and has not
\* yet returned to the caller that commits the completion write
FlagPhase == {"sub", "record", "recover", "release", "ret"}

\* scheduler.py:143-147  test and set of the in-memory entry under _sync_lock
Guard_SkipReleases(t) ==
  /\ pc[t] = "idle"
  /\ calls < MaxCalls
  /\ calls' = calls + 1
  /\ IF GuardTaken(ProcOf(t))
       THEN /\ pc' = [pc EXCEPT ![t] = "ret"]
            /\ outcome' = [outcome EXCEPT ![t] = "skipped_mem"]
            /\ running_syncs' = [running_syncs EXCEPT ![ProcOf(t)] = FALSE]
       ELSE /\ running_syncs' = [running_syncs EXCEPT ![ProcOf(t)] = TRUE]
            /\ pc' = [pc EXCEPT ![t] = "check"]
            /\ UNCHANGED outcome
  /\ UNCHANGED <<db, tx, idx, results, enabled, clock, restarts, staleFromCrash>>
  /\ UNCHANGED <<storeVars, sideVars>>

Guard(t) ==
  /\ pc[t] = "idle"
  /\ calls < MaxCalls
  /\ calls' = calls + 1
  /\ IF GuardTaken(ProcOf(t))
       THEN /\ pc' = [pc EXCEPT ![t] = "ret"]
            /\ outcome' = [outcome EXCEPT ![t] = "skipped_mem"]
            /\ UNCHANGED running_syncs
       ELSE /\ running_syncs' = [running_syncs EXCEPT ![ProcOf(t)] = TRUE]
            /\ pc' = [pc EXCEPT ![t] = "check"]
            /\ UNCHANGED outcome
  /\ UNCHANGED <<db, tx, idx, results, enabled, clock, restarts, staleFromCrash>>
  /\ UNCHANGED <<storeVars, sideVars>>

\* scheduler.py:150  read of the persisted flag
CheckFlag(t) ==
  /\ pc[t] = "check"
  /\ pc' = [pc EXCEPT ![t] = IF View(t).is_running THEN "skip_release" ELSE "mark"]
  /\ UNCHANGED <<running_syncs, db, tx, idx, results, outcome, enabled, clock,
                 calls, restarts, staleFromCrash>>
  /\ UNCHANGED <<storeVars, sideVars>>

\* scheduler.py:151-154  skip on the persisted flag: release the entry, return
SkipRelease(t) ==
  /\ pc[t] = "skip_release"
  /\ running_syncs' = [running_syncs EXCEPT ![ProcOf(t)] = FALSE]
  /\ outcome' = [outcome EXCEPT ![t] = "skipped_db"]
  /\ pc' = [pc EXCEPT ![t] = "ret"]
  /\ UNCHANGED <<db, tx, idx, results, enabled, clock, calls, restarts,
                 staleFromCrash>>
  /\ UNCHANGED <<storeVars, sideVars>>

\* scheduler.py:157  self.write({'is_running': True}); a write that raises
\* leaves the method at once: the statement is outside the try
MarkRunning(t) ==
  /\ pc[t] = "mark"
  /\ \E ok \in BOOLEAN :
       IF ok
         THEN /\ tx' = [tx EXCEPT ![t] = WriteTx(@, [is_running |-> TRUE])]
              /\ pc' = [pc EXCEPT ![t] = "commit"]
              /\ UNCHANGED outcome
         ELSE /\ outcome' = [outcome EXCEPT ![t] = "raised"]
              /\ pc' = [pc EXCEPT ![t] = "ret"]
              /\ UNCHANGED tx
  /\ UNCHANGED <<running_syncs, db, idx, results, enabled, clock, calls,
                 restarts, staleFromCrash>>
  /\ UNCHANGED <<storeVars, sideVars>>

\* scheduler.py:158  self.env.cr.commit(), outside the try as well
CommitRunning(t) ==
  /\ pc[t] = "commit"
  /\ \E ok \in BOOLEAN :
       IF ok
         THEN /\ db' = View(t)
              /\ tx' = [tx EXCEPT ![t] = NoTx]
              /\ idx' = [idx EXCEPT ![t] = NextEnabled(1)]
              /\ pc' = [pc EXCEPT ![t] = PcAt(NextEnabled(1))]
              /\ staleFromCrash' = StaleAfter(View(t), {})
              /\ UNCHANGED outcome
         ELSE /\ outcome' = [outcome EXCEPT ![t] = "raised"]
              /\ pc' = [pc EXCEPT ![t] = "ret"]
              /\ UNCHANGED <<db, tx, idx, staleFromCrash>>
  /\ UNCHANGED <<running_syncs, results, enabled, clock, calls, restarts>>
  /\ UNCHANGED <<storeVars, sideVars>>

\* scheduler.py:166-237  the enabled sub-sync at idx[t]: it returns (ok) or
\* raises, and its own except clause records the failure
SubSync(t) ==
  /\ pc[t] = "sub"
  /\ \E ok \in BOOLEAN :
       /\ results' = [results EXCEPT
                        ![t] = Append(@, [sync |-> SubSyncOrder[idx[t]], ok |-> ok])]
       /\ idx' = [idx EXCEPT ![t] = NextIdx(idx[t], ok)]
       /\ pc' = [pc EXCEPT ![t] = PcAt(NextIdx(idx[t], ok))]
  /\ UNCHANGED <<running_syncs, db, tx, outcome, enabled, clock, calls,
                 restarts, staleFromCrash>>
  /\ UNCHANGED <<storeVars, sideVars>>

\* scheduler.py:239-254  aggregate the status and record the run
RecordResult(t) ==
  /\ pc[t] = "record"
  /\ \E ok \in BOOLEAN :
       IF ok
         THEN /\ tx' = [tx EXCEPT ![t] =
                    WriteTx(@, CompletionWrite(clock + 1, Status(results[t]),
                                               Message(results[t])))]
              /\ clock' = clock + 1
              /\ outcome' = [outcome EXCEPT ![t] = "ran"]
              /\ pc' = [pc EXCEPT ![t] = "release"]
         ELSE /\ pc' = [pc EXCEPT ![t] = "recover"]
              /\ UNCHANGED <<tx, clock, outcome>>
  /\ UNCHANGED <<running_syncs, db, idx, results, enabled, calls, restarts,
                 staleFromCrash>>
  /\ UNCHANGED <<storeVars, sideVars>>

\* scheduler.py:256-263  the outer except: record the run as failed
RecoverResult(t) ==
  /\ pc[t] = "recover"
  /\ \E ok \in BOOLEAN :
       IF ok
         THEN /\ tx' = [tx EXCEPT ![t] =
                    WriteTx(@, CompletionWrite(clock + 1, "failed", <<"error">>))]
              /\ clock' = clock + 1
              /\ outcome' = [outcome EXCEPT ![t] = "recovered"]
         ELSE /\ outcome' = [outcome EXCEPT ![t] = "raised"]
              /\ UNCHANGED <<tx, clock>>
  /\ pc' = [pc EXCEPT ![t] = "release"]
  /\ UNCHANGED <<running_syncs, db, idx, results, enabled, calls, restarts,
                 staleFromCrash>>
  /\ UNCHANGED <<storeVars, sideVars>>

\* scheduler.py:265-268  finally: release the in-memory entry
Release(t) ==
  /\ pc[t] = "release"
  /\ running_syncs' = [running_syncs EXCEPT ![ProcOf(t)] = FALSE]
  /\ pc' = [pc EXCEPT ![t] = "ret"]
  /\ UNCHANGED <<db, tx, idx, results, outcome, enabled, clock, calls,
                 restarts, staleFromCrash>>
  /\ UNCHANGED <<storeVars, sideVars>>

\* scheduler.py:270-273 (action_run_now) and :115 (the cron's code): the
\* method is back in its caller, whose transaction commits when the method
\* returned and rolls back when it raised
Return(t) ==
  /\ pc[t] = "ret"
  /\ LET newdb == IF outcome[t] = "raised" THEN db ELSE View(t)
     IN  /\ db' = newdb
         /\ staleFromCrash' = StaleAfter(newdb, {})
  /\ tx' = [tx EXCEPT ![t] = NoTx]
  /\ pc' = [pc EXCEPT ![t] = "idle"]
  /\ idx' = [idx EXCEPT ![t] = 1]
  /\ results' = [results EXCEPT ![t] = <<>>]
  /\ outcome' = [outcome EXCEPT ![t] = "none"]
  /\ UNCHANGED <<running_syncs, enabled, clock, calls, restarts>>
  /\ UNCHANGED <<storeVars, sideVars>>

(***************************************************************************)
(* Process termination and start.                                          *)
(***************************************************************************)
\* the threads of p are gone with their transactions, and the new process
\* imports scheduler.py again (scheduler.py:10-11: _running_syncs = {})
ProcessStart(p) ==
  /\ restarts < MaxRestarts
  /\ restarts' = restarts + 1
  /\ running_syncs' = [running_syncs EXCEPT ![p] = FALSE]
  /\ pc' = [t \in Threads |-> IF ProcOf(t) = p THEN "idle" ELSE pc[t]]
  /\ tx' = [t \in Threads |-> IF ProcOf(t) = p THEN NoTx ELSE tx[t]]
  /\ idx' = [t \in Threads |-> IF ProcOf(t) = p THEN 1 ELSE idx[t]]
  /\ results' = [t \in Threads |-> IF ProcOf(t) = p THEN <<>> ELSE results[t]]
  /\ outcome' = [t \in Threads |-> IF ProcOf(t) = p THEN "none" ELSE outcome[t]]
  /\ UNCHANGED <<enabled, clock, calls>>

CrashedRunning(p) ==
  IF \E t \in Threads : ProcOf(t) = p /\ pc[t] \in FlagPhase THEN {p} ELSE {}

\* a process terminates and is started again. Nothing of the module runs at
\* a plain start: _reset_running_flags (scheduler.py:25-34) has no caller
Restart(p) ==
  /\ ProcessStart(p)
  /\ staleFromCrash' = StaleAfter(db, CrashedRunning(p))
  /\ UNCHANGED db
  /\ UNCHANGED <<storeVars, sideVars>>

\* hooks.py:8-17  post_init_hook: the process is started with an install of
\* the module (__manifest__.py:81); a failure of the search or of the write
\* is logged and the flags stay as they are
post_init_hook(rec, ok) ==
  IF ok /\ rec.is_running THEN [rec EXCEPT !.is_running = FALSE] ELSE rec

InstallRestart(p) ==
  /\ ProcessStart(p)
  /\ \E ok \in BOOLEAN :
       /\ db' = post_init_hook(db, ok)
       /\ staleFromCrash' = StaleAfter(post_init_hook(db, ok), CrashedRunning(p))
  /\ UNCHANGED <<storeVars, sideVars>>

(***************************************************************************)
(* The synced entities: payloads, records, lookups.                        *)
(***************************************************************************)
\* operations on the store in one behaviour
MaxOps == 3
\* records of one model
MaxRecords == 3
\* records in one fetched page
MaxPage == 2

\* import_shopify_products(batch_size=25), import_shopify_orders(batch_size=50)
product_batch_size == 25

order_batch_size == 50

\* the shopify.instance records, by id
Instances == {1, 2}

\* the shop domain a webhook names, and the instance its search resolves to
\* (webhook.py:133-135); 0 is the empty recordset
Domains == {"shop1", "shop2", "elsewhere"}

InstanceOfDomain(d) ==
  IF d = "shop1" THEN 1 ELSE IF d = "shop2" THEN 2 ELSE 0

\* str(data['id']): the stored external id is the id's decimal text, and an
\* unset external id is False, here the empty text
Str(n) == IF n = 1 THEN "1" ELSE IF n = 2 THEN "2" ELSE IF n = 3 THEN "3" ELSE "4"

\* upstream product records (title, first variant's sku)
ProductPayloads ==
  {[id |-> 1, title |-> "t1", sku |-> "k"],
   [id |-> 1, title |-> "t2", sku |-> "k"],
   [id |-> 2, title |-> "t1", sku |-> ""]}

\* upstream customer records
CustomerPayloads ==
  {[id |-> 1, email |-> "e2"],
   [id |-> 2, email |-> "e1"]}

\* an order without customer: order_data.get('customer', {}) is empty
NoCustomer == [id |-> 0, email |-> ""]

\* upstream order records (a line item with product_id 0 names no product)
OrderPayloads ==
  {[id |-> 1, customer |-> NoCustomer, note |-> "n1",
    line_items |-> <<[product_id |-> 1, sku |-> "k", title |-> "t1"]>>],
   [id |-> 1, customer |-> NoCustomer, note |-> "n2",
    line_items |-> <<[product_id |-> 1, sku |-> "k", title |-> "t1"]>>],
   [id |-> 2, customer |-> [id |-> 2, email |-> "e1"], note |-> "n2",
    line_items |-> <<[product_id |-> 0, sku |-> "n", title |-> "t2"]>>]}

\* the pages a fetch may return: up to MaxPage records
Pages(payloads) ==
  UNION {[1..n -> payloads] : n \in 1..MaxPage}

\* self.env.ref('base.public_partner'), a record of the base data
PublicPartner == 0

\* the store the operations work on
Store ==
  [product_template |-> product_template, res_partner |-> res_partner,
   sale_order |-> sale_order, sync_log |-> sync_log]

MaxIdOf(table) ==
  IF table = {} THEN 0
  ELSE CHOOSE m \in {x.id : x \in table} : \A y \in table : y.id <= m

\* search(..., limit=1): the first record of the matches, 0 for none
FirstId(matches) ==
  IF matches = {} THEN 0
  ELSE CHOOSE m \in {x.id : x \in matches} : \A y \in matches : m <= y.id

\* product.py:142-145, webhook.py:174-177 and 185-188, order.py:365-368.
\* product.template has an `active` field and the domain does not name it,
\* so the search returns active records only (the ORM's active_test, which
\* shopify_instance.py:101 turns off where archived records must be found).
search_product_NoMatch(table, ext, inst) == 0

search_product(table, ext, inst) ==
  FirstId({x \in table : /\ x.shopify_product_id = ext
                          /\ x.shopify_instance_id = inst
                          /\ x.active})

\* order.py:375  search([('default_code', '=', sku)], limit=1)
search_product_by_sku(table, sku) ==
  FirstId({x \in table : x.default_code = sku /\ x.active})

\* partner.py:81-84, webhook.py:214-217, order.py:230-233 (res.partner has
\* an `active` field as well)
search_partner(table, ext, inst) ==
  FirstId({x \in table : /\ x.shopify_customer_id = ext
                          /\ x.shopify_instance_id = inst
                          /\ x.active})

\* order.py:239-241  search([('email', '=', email)], limit=1)
search_partner_by_email(table, email) ==
  FirstId({x \in table : x.email = email /\ x.active})

\* order.py:135-138, webhook.py:198-201 (sale.order has no `active` field)
search_order(table, ext, inst) ==
  FirstId({x \in table : /\ x.shopify_order_id = ext
                          /\ x.shopify_instance_id = inst})

\* product.py:186-240  _prepare_product_vals
_prepare_product_vals(data, inst) ==
  [name |-> data.title, shopify_instance_id |-> inst,
   shopify_product_id |-> Str(data.id), default_code |-> data.sku]

\* partner.py:121-154  _prepare_customer_vals
_prepare_customer_vals(data, inst) ==
  [email |-> data.email, shopify_instance_id |-> inst,
   shopify_customer_id |-> Str(data.id)]

\* create(vals) on product.template: a new active record
create_product(table, vals) ==
  table \cup {[id |-> MaxIdOf(table) + 1, active |-> TRUE, name |-> vals.name,
               shopify_instance_id |-> vals.shopify_instance_id,
               shopify_product_id |-> vals.shopify_product_id,
               default_code |-> vals.default_code]}

\* record.write(vals) on product.template
write_product(table, id, vals) ==
  {IF x.id = id
     THEN [x EXCEPT !.name = vals.name,
                    !.shopify_instance_id = vals.shopify_instance_id,
                    !.shopify_product_id = vals.shopify_product_id,
                    !.default_code = vals.default_code]
     ELSE x : x \in table}

create_partner(table, vals) ==
  table \cup {[id |-> MaxIdOf(table) + 1, active |-> TRUE, email |-> vals.email,
               shopify_instance_id |-> vals.shopify_instance_id,
               shopify_customer_id |-> vals.shopify_customer_id]}

write_partner(table, id, vals) ==
  {IF x.id = id
     THEN [x EXCEPT !.email = vals.email,
                    !.shopify_instance_id = vals.shopify_instance_id,
                    !.shopify_customer_id = vals.shopify_customer_id]
     ELSE x : x \in table}

\* a new sale.order is a quotation (state 'draft') without lines
create_order(table, vals) ==
  table \cup {[id |-> MaxIdOf(table) + 1, state |-> "draft", order_line |-> << >>,
               partner_id |-> vals.partner_id, note |-> vals.note,
               shopify_instance_id |-> vals.shopify_instance_id,
               shopify_order_id |-> vals.shopify_order_id]}

write_order(table, id, vals) ==
  {IF x.id = id
     THEN [x EXCEPT !.partner_id = vals.partner_id, !.note = vals.note,
                    !.shopify_instance_id = vals.shopify_instance_id,
                    !.shopify_order_id = vals.shopify_order_id]
     ELSE x : x \in table}

RecordOf(table, id) == CHOOSE x \in table : x.id = id

Min(a, b) == IF a <= b THEN a ELSE b

\* `name = value` of the code: F of the value of v, v being computed once
Bind(v, F(_)) == CHOOSE r \in {F(x) : x \in {v}} : TRUE

(***************************************************************************)
(* Bulk import of products (product.py) and of customers (partner.py).     *)
(***************************************************************************)
\* What goes wrong in one call of an import, and at which record of the
\* fetched page (at most one fault in a call):
\*   "mapping"  _prepare_*_vals raises for the record
\*   "upsert"   the record's write() or create() raises and writes nothing
\*   "db"       the record's write() or create() fails in the database, which
\*              aborts the transaction: every later statement of it raises
\*              and its commit keeps nothing
\*   "lines"    every create() of an order line of the record raises
\*   "batch"    the commit of the batch that holds the record raises
\*   "fetch"    the request gets a status other than 200
FaultKinds == {"mapping", "upsert", "db", "lines", "batch", "fetch"}

NoFault == [kind |-> "none", at |-> 0]

\* the fault that hits the record at index k of the page
KindAt(fault, k) == IF fault.at = k THEN fault.kind ELSE "none"

\* the fault that hits the commit of the batch of the records i+1..j
BatchFails(fault, i, j) ==
  fault.kind = "batch" /\ i < fault.at /\ fault.at <= j

\* product.py:139-157  the body of the loop of _process_product_batch:
\* search, then write or create; an exception skips the record (155-157)
ProductStep(S, product_data, inst, f, aborted) ==
  LET product_vals == _prepare_product_vals(product_data, inst)
      existing_product ==
        search_product(S.product_template, Str(product_data.id), inst)
  IN  IF aborted \/ f \in {"mapping", "upsert", "db"}
        THEN [store |-> S, created |-> 0, updated |-> 0,
              aborted |-> aborted \/ f = "db"]
      ELSE IF existing_product # 0
        THEN [store |-> [S EXCEPT !.product_template =
                           write_product(@, existing_product, product_vals)],
              created |-> 0, updated |-> 1, aborted |-> FALSE]
        ELSE [store |-> [S EXCEPT !.product_template =
                           create_product(@, product_vals)],
              created |-> 1, updated |-> 0, aborted |-> FALSE]

\* product.py:128-159  _process_product_batch; k is the index in the page
\* of the first record of the batch
RECURSIVE _process_product_batch(_, _, _, _, _, _)
_process_product_batch(S, products_batch, inst, k, fault, aborted) ==
  IF products_batch = << >>
    THEN [store |-> S, created |-> 0, updated |-> 0, aborted |-> aborted]
    ELSE
      Bind(ProductStep(S, Head(products_batch), inst, KindAt(fault, k), aborted),
        LAMBDA one :
          Bind(_process_product_batch(one.store, Tail(products_batch), inst,
                                      k + 1, fault, one.aborted),
            LAMBDA rest :
              [store |-> rest.store, created |-> one.created + rest.created,
               updated |-> one.updated + rest.updated,
               aborted |-> rest.aborted]))

\* product.py:78-96  the batches of one fetched page: the counts are added
\* (86-87), then the batch is committed (90); when the commit raises the
\* batch is rolled back and the loop goes on (92-96)
RECURSIVE ProductBatches(_, _, _, _, _, _)
ProductBatches(S, products, i, inst, batch_size, fault) ==
  IF i >= Len(products)
    THEN [store |-> S, created |-> 0, updated |-> 0]
    ELSE
      Bind(_process_product_batch(
             S, SubSeq(products, i + 1, Min(i + batch_size, Len(products))),
             inst, i + 1, fault, FALSE),
        LAMBDA b :
          Bind(ProductBatches(
                 IF b.aborted \/ BatchFails(fault, i, i + batch_size)
                   THEN S ELSE b.store,
                 products, i + batch_size, inst, batch_size, fault),
            LAMBDA rest :
              [store |-> rest.store,
               created |-> b.created + rest.created,
               updated |-> b.updated + rest.updated]))

\* product.py:32-126  import_shopify_products, for the records of the one
\* page the upstream has; a failed request raises before any processing
\* (65-66, 124-126)
import_shopify_products(S, products, inst, batch_size, fault) ==
  IF fault.kind = "fetch"
    THEN [store |-> S, created |-> 0, updated |-> 0, raised |-> TRUE]
    ELSE Bind(ProductBatches(S, products, 0, inst, batch_size, fault),
           LAMBDA r : [store |-> r.store, created |-> r.created,
                       updated |-> r.updated, raised |-> FALSE])

\* partner.py:80-91  the body of the loop of import_shopify_customers
CustomerStep(S, customer_data, inst) ==
  LET customer_vals == _prepare_customer_vals(customer_data, inst)
      existing_customer ==
        search_partner(S.res_partner, Str(customer_data.id), inst)
  IN  IF existing_customer # 0
        THEN [store |-> [S EXCEPT !.res_partner =
                           write_partner(@, existing_customer, customer_vals)],
              created |-> 0, updated |-> 1]
        ELSE [store |-> [S EXCEPT !.res_partner =
                           create_partner(@, customer_vals)],
              created |-> 1, updated |-> 0]

\* partner.py:75-91  the loop of import_shopify_customers
RECURSIVE CustomerLoop(_, _, _)
CustomerLoop(S, all_customers, inst) ==
  IF all_customers = << >>
    THEN [store |-> S, created |-> 0, updated |-> 0]
    ELSE
      Bind(CustomerStep(S, Head(all_customers), inst), LAMBDA one :
        Bind(CustomerLoop(one.store, Tail(all_customers), inst),
          LAMBDA rest :
            [store |-> rest.store, created |-> one.created + rest.created,
             updated |-> one.updated + rest.updated]))

\* partner.py:32-108  import_shopify_customers: one transaction, no
\* handler inside the loop, so any fault raises (106-108) and nothing of
\* the call is kept
import_shopify_customers(S, all_customers, inst, fault) ==
  IF fault.kind # "none"
    THEN [store |-> S, created |-> 0, updated |-> 0, raised |-> TRUE]
    ELSE Bind(CustomerLoop(S, all_customers, inst),
           LAMBDA r : [store |-> r.store, created |-> r.created,
                       updated |-> r.updated, raised |-> FALSE])

(***************************************************************************)
(* Bulk import of orders (order.py).                                       *)
(***************************************************************************)
\* order.py:220-253  _get_or_create_customer: by external id, else by email
\* (whatever the instance), else a new partner
_get_or_create_customer(S, customer_data, inst) ==
  IF customer_data = NoCustomer
    THEN [store |-> S, partner |-> PublicPartner]
    ELSE
      LET by_id == search_partner(S.res_partner, Str(customer_data.id), inst)
          by_email == IF customer_data.email # ""
                        THEN search_partner_by_email(S.res_partner, customer_data.email)
                        ELSE 0
      IN  IF by_id # 0
            THEN [store |-> S, partner |-> by_id]
            ELSE IF by_email # 0
              THEN [store |->
                      [S EXCEPT !.res_partner =
                         {IF x.id = by_email
                            THEN [x EXCEPT !.shopify_customer_id = Str(customer_data.id),
                                           !.shopify_instance_id = inst]
                            ELSE x : x \in @}],
                    partner |-> by_email]
              ELSE [store |->
                      [S EXCEPT !.res_partner =
                         create_partner(@, _prepare_customer_vals(customer_data, inst))],
                    partner |-> MaxIdOf(S.res_partner) + 1]

\* order.py:171-218  _prepare_order_vals (orders without shipping address)
_prepare_order_vals(S, order_data, inst) ==
  Bind(_get_or_create_customer(S, order_data.customer, inst), LAMBDA c :
    [store |-> c.store,
     vals |-> [partner_id |-> c.partner, shopify_instance_id |-> inst,
               shopify_order_id |-> Str(order_data.id), note |-> order_data.note]])

\* order.py:358-403  _get_or_create_product: by external id, else by sku,
\* else a new product made on the fly
_get_or_create_product(S, line_item, inst) ==
  LET by_id == IF line_item.product_id # 0
                 THEN search_product(S.product_template, Str(line_item.product_id), inst)
                 ELSE 0
      by_sku == IF line_item.sku # ""
                  THEN search_product_by_sku(S.product_template, line_item.sku)
                  ELSE 0
  IN  IF by_id # 0 THEN [store |-> S, product |-> by_id]
      ELSE IF by_sku # 0 THEN [store |-> S, product |-> by_sku]
      ELSE [store |->
              [S EXCEPT !.product_template =
                 create_product(@,
                   [name |-> line_item.title, default_code |-> line_item.sku,
                    shopify_instance_id |-> inst,
                    shopify_product_id |->
                      IF line_item.product_id # 0 THEN Str(line_item.product_id)
                      ELSE ""])],
            product |-> MaxIdOf(S.product_template) + 1]

\* order.py:285-331  _create_order_lines: one line per line item; when the
\* create() of the line raises, the line is left out (329-331) and the
\* product found or made for it stays
RECURSIVE _create_order_lines(_, _, _, _)
_create_order_lines(S, order, line_items, lines_fail) ==
  IF line_items = << >> THEN S
  ELSE
    Bind(_get_or_create_product(S, Head(line_items),
                                RecordOf(S.sale_order, order).shopify_instance_id),
      LAMBDA p :
        Bind(IF lines_fail THEN p.store
             ELSE [p.store EXCEPT !.sale_order =
                     {IF x.id = order
                        THEN [x EXCEPT !.order_line =
                                Append(@, [product_id |-> p.product,
                                           name |-> Head(line_items).title])]
                        ELSE x : x \in @}],
          LAMBDA S1 : _create_order_lines(S1, order, Tail(line_items), lines_fail)))

LinesMissing_Always(order) == TRUE

\* order.py:145  `if not existing_order.order_line`
LinesMissing(order) == order.order_line = << >>

\* order.py:133-152  the body of the loop of _process_order_batch; an
\* exception skips the record (154-156) and keeps what was written before
\* it: the customer _prepare_order_vals found or made (174)
OrderStep(S, order_data, inst, f, aborted) ==
  IF aborted
    THEN [store |-> S, created |-> 0, updated |-> 0, aborted |-> TRUE]
  ELSE
  Bind(_prepare_order_vals(S, order_data, inst), LAMBDA pv :
    LET existing_order ==
          search_order(pv.store.sale_order, Str(order_data.id), inst)
    IN  IF f = "mapping"
          THEN [store |-> pv.store, created |-> 0, updated |-> 0,
                aborted |-> FALSE]
        ELSE IF existing_order # 0
          THEN IF RecordOf(pv.store.sale_order, existing_order).state
                    \in {"draft", "sent"}
                 THEN IF f \in {"upsert", "db"}
                   THEN [store |-> pv.store, created |-> 0, updated |-> 0,
                         aborted |-> f = "db"]
                   ELSE
                      Bind([pv.store EXCEPT !.sale_order =
                              write_order(@, existing_order, pv.vals)],
                        LAMBDA written :
                          [store |->
                             IF LinesMissing(RecordOf(written.sale_order,
                                                      existing_order))
                               THEN _create_order_lines(written, existing_order,
                                                        order_data.line_items,
                                                        f = "lines")
                               ELSE written,
                           created |-> 0, updated |-> 1, aborted |-> FALSE])
                 ELSE [store |-> pv.store, created |-> 0, updated |-> 0,
                       aborted |-> FALSE]
          ELSE IF f \in {"upsert", "db"}
            THEN [store |-> pv.store, created |-> 0, updated |-> 0,
                  aborted |-> f = "db"]
            ELSE
               Bind([pv.store EXCEPT !.sale_order = create_order(@, pv.vals)],
                 LAMBDA made :
                   [store |-> _create_order_lines(made, MaxIdOf(made.sale_order),
                                                  order_data.line_items,
                                                  f = "lines"),
                    created |-> 1, updated |-> 0, aborted |-> FALSE]))

\* order.py:127-158  _process_order_batch; k is the index in the page of
\* the first record of the batch
RECURSIVE _process_order_batch(_, _, _, _, _, _)
_process_order_batch(S, orders_batch, inst, k, fault, aborted) ==
  IF orders_batch = << >>
    THEN [store |-> S, created |-> 0, updated |-> 0, aborted |-> aborted]
    ELSE
      Bind(OrderStep(S, Head(orders_batch), inst, KindAt(fault, k), aborted),
        LAMBDA one :
          Bind(_process_order_batch(one.store, Tail(orders_batch), inst,
                                    k + 1, fault, one.aborted),
            LAMBDA rest :
              [store |-> rest.store, created |-> one.created + rest.created,
               updated |-> one.updated + rest.updated,
               aborted |-> rest.aborted]))

\* order.py:86-95  the batches of one fetched page, each committed (94);
\* no handler around the batch: when the commit raises, the import raises
\* (123-125) with the batches committed so far in the store
RECURSIVE OrderBatches(_, _, _, _, _, _)
OrderBatches(S, orders, i, inst, batch_size, fault) ==
  IF i >= Len(orders)
    THEN [store |-> S, created |-> 0, updated |-> 0, raised |-> FALSE]
    ELSE
      Bind(_process_order_batch(
             S, SubSeq(orders, i + 1, Min(i + batch_size, Len(orders))),
             inst, i + 1, fault, FALSE),
        LAMBDA b :
          IF BatchFails(fault, i, i + batch_size)
            THEN [store |-> S, created |-> b.created, updated |-> b.updated,
                  raised |-> TRUE]
            ELSE
              Bind(OrderBatches(IF b.aborted THEN S ELSE b.store,
                                orders, i + batch_size, inst, batch_size, fault),
                LAMBDA rest :
                  [store |-> rest.store,
                   created |-> b.created + rest.created,
                   updated |-> b.updated + rest.updated,
                   raised |-> rest.raised]))

\* order.py:43-125  import_shopify_orders, for the records of the one page
\* the upstream has; a failed request raises before any processing (74-75)
import_shopify_orders(S, orders, inst, batch_size, fault) ==
  IF fault.kind = "fetch"
    THEN [store |-> S, created |-> 0, updated |-> 0, raised |-> TRUE]
    ELSE OrderBatches(S, orders, 0, inst, batch_size, fault)

(***************************************************************************)
(* Webhook deliveries (webhook.py).                                        *)
(***************************************************************************)
WebhookTopics ==
  {"products/create", "products/update", "products/delete",
   "orders/create", "orders/updated", "orders/cancelled",
   "customers/create", "customers/update",
   "inventory_levels/update", "app/uninstalled"}

\* the payloads Shopify sends with a topic
PayloadsOf(topic) ==
  IF topic \in {"products/create", "products/update", "products/delete"}
    THEN ProductPayloads
  ELSE IF topic \in {"orders/create", "orders/updated", "orders/cancelled"}
    THEN OrderPayloads
  ELSE IF topic \in {"customers/create", "customers/update"} THEN CustomerPayloads
  ELSE {[id |-> 1]}

\* what may go wrong in a delivery: log_sync raises, the mapping raises, or
\* the write()/create()
WebhookFaults == {"none", "log", "mapping", "upsert"}

\* sync_log.py:58-76  log_sync appends one shopify.sync.log record
log_sync(S, instance_id, sync_type, direction, status, message) ==
  [S EXCEPT !.sync_log =
     Append(@, [shopify_instance_id |-> instance_id, sync_type |-> sync_type,
                direction |-> direction, status |-> status,
                message |-> message])]

archive_product_Unlink(products, id) == {x \in products : x.id # id}

\* webhook.py:190  product.write({'active': False})
archive_product(products, id) ==
  {IF x.id = id THEN [x EXCEPT !.active = FALSE] ELSE x : x \in products}

\* webhook.py:168-190
_process_product_webhook(S, topic, data, inst, f) ==
  LET found == search_product(S.product_template, Str(data.id), inst)
  IN  IF topic \in {"products/create", "products/update"}
        THEN IF f # "none" THEN [store |-> S, raised |-> TRUE]
             ELSE IF found # 0
               THEN [store |-> [S EXCEPT !.product_template =
                                  write_product(@, found,
                                                _prepare_product_vals(data, inst))],
                     raised |-> FALSE]
               ELSE [store |-> [S EXCEPT !.product_template =
                                  create_product(@, _prepare_product_vals(data, inst))],
                     raised |-> FALSE]
      ELSE IF topic = "products/delete" /\ found # 0
        THEN IF f = "upsert" THEN [store |-> S, raised |-> TRUE]
             ELSE [store |-> [S EXCEPT !.product_template =
                                archive_product(@, found)],
                   raised |-> FALSE]
      ELSE [store |-> S, raised |-> FALSE]

\* webhook.py:192-206  (writes whatever the order's state, creates no lines);
\* when the mapping or the write raises, the customer _prepare_order_vals
\* found or made stays
_process_order_webhook(S, topic, data, inst, f) ==
  IF topic \in {"orders/create", "orders/updated"}
    THEN
      Bind(_prepare_order_vals(S, data, inst), LAMBDA pv :
        LET existing_order == search_order(pv.store.sale_order, Str(data.id), inst)
        IN  IF f # "none" THEN [store |-> pv.store, raised |-> TRUE]
            ELSE IF existing_order # 0
              THEN [store |-> [pv.store EXCEPT !.sale_order =
                                 write_order(@, existing_order, pv.vals)],
                    raised |-> FALSE]
              ELSE [store |-> [pv.store EXCEPT !.sale_order =
                                 create_order(@, pv.vals)],
                    raised |-> FALSE])
    ELSE [store |-> S, raised |-> FALSE]

\* webhook.py:208-222
_process_customer_webhook(S, topic, data, inst, f) ==
  IF topic \in {"customers/create", "customers/update"}
    THEN
      LET existing_partner == search_partner(S.res_partner, Str(data.id), inst)
      IN  IF f # "none" THEN [store |-> S, raised |-> TRUE]
          ELSE IF existing_partner # 0
            THEN [store |-> [S EXCEPT !.res_partner =
                               write_partner(@, existing_partner,
                                             _prepare_customer_vals(data, inst))],
                  raised |-> FALSE]
            ELSE [store |-> [S EXCEPT !.res_partner =
                               create_partner(@, _prepare_customer_vals(data, inst))],
                  raised |-> FALSE]
    ELSE [store |-> S, raised |-> FALSE]

\* the text up to the first "/" of a topic, as topic.startswith tests it
TopicPrefix(topic) ==
  IF topic \in {"products/create", "products/update", "products/delete"}
    THEN "products/"
  ELSE IF topic \in {"orders/create", "orders/updated", "orders/cancelled"}
    THEN "orders/"
  ELSE IF topic \in {"customers/create", "customers/update"} THEN "customers/"
  ELSE IF topic = "inventory_levels/update" THEN "inventory_levels/"
  ELSE "app/"

process_webhook_AnyDomain(S, topic, data, shopify_domain, f) ==
  Bind(_process_product_webhook(S, topic, data, 1, f),
    LAMBDA h : [store |-> h.store, result |-> ~h.raised, raised |-> FALSE])

\* webhook.py:128-166  process_webhook: the whole body is inside the try;
\* an exception of log_sync or of a handler is caught (164-166) and
\* answered with False; what was written before it stays
process_webhook(S, topic, data, shopify_domain, f) ==
  LET instance == InstanceOfDomain(shopify_domain)
  IN  IF instance = 0 \/ f = "log"
        THEN [store |-> S, result |-> FALSE, raised |-> FALSE]
        ELSE
          Bind(log_sync(S, instance, "webhook", "import", "success", topic),
            LAMBDA logged :
              Bind(IF TopicPrefix(topic) = "products/"
                     THEN _process_product_webhook(logged, topic, data, instance, f)
                   ELSE IF TopicPrefix(topic) = "orders/"
                     THEN _process_order_webhook(logged, topic, data, instance, f)
                   ELSE IF TopicPrefix(topic) = "customers/"
                     THEN _process_customer_webhook(logged, topic, data, instance, f)
                   ELSE [store |-> logged, raised |-> FALSE],
                LAMBDA h :
                  [store |-> h.store, result |-> ~h.raised, raised |-> FALSE]))

(***************************************************************************)
(* Exports of one record (product.py, partner.py, order.py).               *)
(***************************************************************************)
\* the ids the upstream gives its records
UpstreamIds == 1..3

\* product.py:242-348  the PUT answers with the record's id, the POST with
\* a new id; the answer is written back (329-333)
export_product_to_shopify(S, id, result_id) ==
  [S EXCEPT !.product_template =
     {IF x.id = id THEN [x EXCEPT !.shopify_product_id = result_id] ELSE x
        : x \in @}]

\* partner.py:173-234
export_customer_to_shopify(S, id, result_id) ==
  [S EXCEPT !.res_partner =
     {IF x.id = id THEN [x EXCEPT !.shopify_customer_id = result_id] ELSE x
        : x \in @}]

\* order.py:405-460  always a POST of a draft order
export_order_to_shopify(S, id, result_id) ==
  [S EXCEPT !.sale_order =
     {IF x.id = id THEN [x EXCEPT !.shopify_order_id = result_id] ELSE x
        : x \in @}]

(***************************************************************************)
(* The operations on the store, one action per call.                       *)
(***************************************************************************)
\* the tables stay within the bounds of the check
Bounded(S) ==
  /\ Cardinality(S.product_template) <= MaxRecords
  /\ Cardinality(S.res_partner) <= MaxRecords
  /\ Cardinality(S.sale_order) <= MaxRecords

\* the cursor's commit of what the call did
Commit(S) ==
  /\ product_template' = S.product_template
  /\ res_partner' = S.res_partner
  /\ sale_order' = S.sale_order
  /\ sync_log' = S.sync_log

\* the (instance, external id) pairs of the records of one model
PairsOf(kind) ==
  IF kind = "products"
    THEN {<<x.shopify_instance_id, x.shopify_product_id>> : x \in product_template}
  ELSE IF kind = "customers"
    THEN {<<x.shopify_instance_id, x.shopify_customer_id>> : x \in res_partner}
  ELSE {<<x.shopify_instance_id, x.shopify_order_id>> : x \in sale_order}

IdsDistinct(page) ==
  \A i, j \in 1..Len(page) : i # j => page[i].id # page[j].id

\* the page's records are new to the store: no local record, archived or
\* not, carries one of their pairs
Fresh(kind, page, inst) ==
  /\ IdsDistinct(page)
  /\ \A i \in 1..Len(page) : <<inst, Str(page[i].id)>> \notin PairsOf(kind)

\* history keeps the bulk imports that ran last, one right after the other
Remember(kind, inst, page, fault, r) ==
  LET h == [kind |-> kind, inst |-> inst, page |-> page, fault |-> fault,
            created |-> r.created, updated |-> r.updated,
            fresh |-> Fresh(kind, page, inst)]
  IN  history' = IF history = << >> THEN <<h>>
                 ELSE <<history[Len(history)], h>>

\* no operation yet
NoCall ==
  [op |-> "none", kind |-> "", inst |-> 0, data |-> << >>, fault |-> NoFault,
   batch_size |-> 0, result |-> "", created |-> 0, updated |-> 0]

\* the operation of this step, for the record
Did(op, kind, inst, data, fault, batch_size, result, created, updated) ==
  last' = [op |-> op, kind |-> kind, inst |-> inst, data |-> data,
           fault |-> fault, batch_size |-> batch_size, result |-> result,
           created |-> created, updated |-> updated]

\* how a call ended for its caller
Ended(r) == IF r.raised THEN "raised" ELSE "returned"

\* the faults a page of n records can meet
Faults(kinds, n) ==
  {NoFault} \cup {[kind |-> k, at |-> i] : k \in kinds, i \in 1..n}

ImportProducts(inst, products, batch_size, fault) ==
  /\ ops < MaxOps
  /\ \E r \in {import_shopify_products(Store, products, inst, batch_size, fault)} :
         /\ Bounded(r.store)
         /\ Commit(r.store)
         /\ Remember("products", inst, products, fault, r)
         /\ Did("import", "products", inst, products, fault, batch_size,
                Ended(r), r.created, r.updated)
  /\ ops' = ops + 1
  /\ UNCHANGED <<schedVars, sideVars, first_lines, posts>>

ImportCustomers(inst, all_customers, fault) ==
  /\ ops < MaxOps
  /\ \E r \in {import_shopify_customers(Store, all_customers, inst, fault)} :
         /\ Bounded(r.store)
         /\ Commit(r.store)
         /\ Remember("customers", inst, all_customers, fault, r)
         /\ Did("import", "customers", inst, all_customers, fault, 0,
                Ended(r), r.created, r.updated)
  /\ ops' = ops + 1
  /\ UNCHANGED <<schedVars, sideVars, first_lines, posts>>

ImportOrders(inst, orders, batch_size, fault) ==
  /\ ops < MaxOps
  /\ \E r \in {import_shopify_orders(Store, orders, inst, batch_size, fault)} :
         /\ Bounded(r.store)
         /\ Commit(r.store)
         /\ Remember("orders", inst, orders, fault, r)
         /\ Did("import", "orders", inst, orders, fault, batch_size,
                Ended(r), r.created, r.updated)
         /\ first_lines' = first_lines \cup
              {<<o.id, Len(o.order_line)>> :
                 o \in {x \in r.store.sale_order :
                          x.id \notin {y.id : y \in sale_order}}}
  /\ ops' = ops + 1
  /\ UNCHANGED <<schedVars, sideVars, posts>>

Webhook(topic, data, shopify_domain, f) ==
  /\ ops < MaxOps
  /\ \E r \in {process_webhook(Store, topic, data, shopify_domain, f)} :
         /\ Bounded(r.store)
         /\ Commit(r.store)
         /\ Did("webhook", topic, InstanceOfDomain(shopify_domain), <<data>>,
                [kind |-> f, at |-> 1], 0,
                IF r.raised THEN "raised" ELSE IF r.result THEN "true" ELSE "false",
                0, 0)
  /\ history' = << >>
  /\ ops' = ops + 1
  /\ UNCHANGED <<schedVars, sideVars, first_lines, posts>>

\* the user confirms a quotation: sale.order's state leaves draft/sent, the
\* states order.py:142 tests for
ConfirmOrder(id) ==
  /\ ops < MaxOps
  /\ \E x \in sale_order : x.id = id /\ x.state = "draft"
  /\ sale_order' = {IF x.id = id THEN [x EXCEPT !.state = "sale"] ELSE x
                      : x \in sale_order}
  /\ Did("confirm", "orders", 0, << >>, NoFault, 0, "returned", 0, 0)
  /\ history' = << >>
  /\ ops' = ops + 1
  /\ UNCHANGED <<schedVars, sideVars, product_template, res_partner, sync_log,
                 first_lines, posts>>

\* the ids the upstream may answer an export of record x with: the PUT
\* answers with the record's id, the POST with a new id, one that no local
\* record of the instance carries
Answers(kind, inst, ext, post) ==
  IF ext # "" /\ ~post THEN {ext}
  ELSE {Str(n) : n \in {m \in UpstreamIds : <<inst, Str(m)>> \notin PairsOf(kind)}}

\* the values of updated_at in an answer of the upstream: none, or a time
\* in ISO 8601 with its zone
Timestamps == {"", "2024-01-01T10:00:00-05:00"}

\* product.py:316-327  date_parser.parse(updated_at).replace(tzinfo=None);
\* without a value, fields.Datetime.now()
NaiveDatetime(updated_at) == "2024-01-01 10:00:00"

\* the values write() takes for a fields.Datetime (partner.py:30): a false
\* value or "YYYY-MM-DD HH:MM:SS"; any other string raises ValueError
DatetimeWritable(value) == value \in {"", "2024-01-01 10:00:00"}

\* the request an export sends for a record: none without an instance
\* (product.py:246-247); a PUT when the record holds an external id, else a
\* POST (product.py:303-310, partner.py:204-211); order.py:437-438 always
\* posts
Method(kind, inst, ext) ==
  IF inst = 0 THEN "NONE"
  ELSE IF kind = "orders" \/ ext = "" THEN "POST"
  ELSE "PUT"

\* the request of this step, counted when it is a create
Sent(kind, id, method) ==
  posts' = IF method = "POST"
             THEN posts \cup
                    {<<kind, id,
                       Cardinality({p \in posts : p[1] = kind /\ p[2] = id}) + 1>>}
             ELSE posts

\* the export of this step, for the record
Exported(kind, id, method, ok, stored) ==
  Did("export", kind, 0, <<[id |-> id, method |-> method, ok |-> ok]>>,
      NoFault, 0,
      IF stored THEN "returned" ELSE "raised", 0, 0)

\* product.py:242-348  without an instance the call raises before any
\* request (246-247); on an answer other than 200/201 it raises and nothing
\* is written (343-348); else the answer's id is written back with the
\* parsed time (329-333)
ExportProduct(id, ok, updated_at) ==
  /\ ops < MaxOps
  /\ \E x \in product_template :
       /\ x.id = id
       /\ LET method == Method("products", x.shopify_instance_id, x.shopify_product_id)
              stored == method # "NONE" /\ ok /\ DatetimeWritable(NaiveDatetime(updated_at))
          IN  /\ IF stored
                   THEN \E result_id \in Answers("products", x.shopify_instance_id,
                                                 x.shopify_product_id, FALSE) :
                          Commit(export_product_to_shopify(Store, id, result_id))
                   ELSE Commit(Store)
              /\ Sent("products", id, method)
              /\ Exported("products", id, method, ok, stored)
  /\ history' = << >>
  /\ ops' = ops + 1
  /\ UNCHANGED <<schedVars, sideVars, first_lines>>

\* partner.py:173-234  as for a product, but the answer's updated_at is
\* written as it came (218): when write() raises on it, nothing of the write
\* is kept, the external id included, and the call raises (232-234)
ExportCustomer(id, ok, updated_at) ==
  /\ ops < MaxOps
  /\ \E x \in res_partner :
       /\ x.id = id
       /\ LET method == Method("customers", x.shopify_instance_id, x.shopify_customer_id)
              stored == method # "NONE" /\ ok /\ DatetimeWritable(updated_at)
          IN  /\ IF stored
                   THEN \E result_id \in Answers("customers", x.shopify_instance_id,
                                                 x.shopify_customer_id, FALSE) :
                          Commit(export_customer_to_shopify(Store, id, result_id))
                   ELSE Commit(Store)
              /\ Sent("customers", id, method)
              /\ Exported("customers", id, method, ok, stored)
  /\ history' = << >>
  /\ ops' = ops + 1
  /\ UNCHANGED <<schedVars, sideVars, first_lines>>

\* order.py:405-460  always a POST of a draft order; the answer's id is
\* written back (442-445)
ExportOrder(id, ok) ==
  /\ ops < MaxOps
  /\ \E x \in sale_order :
       /\ x.id = id
       /\ LET method == Method("orders", x.shopify_instance_id, x.shopify_order_id)
              stored == method # "NONE" /\ ok
          IN  /\ IF stored
                   THEN \E result_id \in Answers("orders", x.shopify_instance_id,
                                                 x.shopify_order_id, TRUE) :
                          Commit(export_order_to_shopify(Store, id, result_id))
                   ELSE Commit(Store)
              /\ Sent("orders", id, method)
              /\ Exported("orders", id, method, ok, stored)
  /\ history' = << >>
  /\ ops' = ops + 1
  /\ UNCHANGED <<schedVars, sideVars, first_lines>>

\* the store before the first sync: a product and a contact made locally,
\* assigned to an instance and not exported yet
InitStore ==
  /\ product_template =
       {[id |-> 1, active |-> TRUE, name |-> "t0", shopify_instance_id |-> 1,
         shopify_product_id |-> "", default_code |-> "k"]}
  /\ res_partner =
       {[id |-> 1, active |-> TRUE, email |-> "e1", shopify_instance_id |-> 1,
         shopify_customer_id |-> ""]}
  /\ sale_order = {}
  /\ sync_log = << >>
  /\ history = << >>
  /\ ops = 0
  /\ last = NoCall
  /\ first_lines = {}
  /\ posts = {}

(***************************************************************************)
(* The paginated fetches: the loops that request page after page.          *)
(***************************************************************************)
\* requests of one fetch
MaxRequests == 3

\* products      product.py:55-107       orders       order.py:64-106
\* customers     partner.py:46-71        discounts    discount.py:94-116
\* collection_products  collection.py:113-144
\* collections   collection.py:64-90 (two listings, one request each)
FetchKinds ==
  {"products", "orders", "customers", "discounts", "collection_products",
   "collections"}

\* the loops that follow the Link header
Paginated == FetchKinds \ {"collections"}

\* the records of a page: none, or a full page
PageSizes == {0, 100}

\* the Link header of a response: its links, each with its rel and the
\* page_info of its URL (the token of a page of the upstream)
PrevLink == [rel |-> "previous", page_info |-> 9]

NextLinkTo(n) == [rel |-> "next", page_info |-> n]

LinkHeaders(n) ==
  {<< >>, <<PrevLink>>, <<NextLinkTo(n)>>, <<PrevLink, NextLinkTo(n)>>}

\* `'rel="next"' in link_header`
HasNext(links) == \E i \in 1..Len(links) : links[i].rel = "next"

\* the loop over link_header.split(','): page_info of the first link whose
\* rel is next (product.py:101-104)
NextToken(links) ==
  links[CHOOSE i \in 1..Len(links) :
          /\ links[i].rel = "next"
          /\ \A j \in 1..(i - 1) : links[j].rel # "next"].page_info

\* the query parameters of the first request (product.py:46, order.py:51-54,
\* partner.py:40, discount.py:95, collection.py:110; the listings of
\* collections are requested without parameters, collection.py:66, 80)
FirstParams(kind, date_from) ==
  IF kind = "orders"
    THEN IF date_from THEN {"limit", "status", "created_at_min"}
         ELSE {"limit", "status"}
  ELSE IF kind = "collections" THEN {}
  ELSE {"limit"}

\* the query parameters of a request that follows a token: products and
\* orders build {'page_info': ...} (product.py:57-58, order.py:66-67), as
\* does collection.py:141; customers add page_info to the params of the first
\* request (partner.py:47-48); discounts to a new {'limit': 250}
\* (discount.py:95-97)
NextParams(kind, params) ==
  IF kind \in {"customers", "discounts"} THEN params \cup {"page_info"}
  ELSE {"page_info"}

\* the loops that stop at an empty page (product.py:71-73, order.py:80-81,
\* partner.py:58-59, collection.py:121-122); discount.py:101-114 does not
\* look at the length of the page
StopsOnEmpty(kind) == kind \in {"products", "orders", "customers",
                                "collection_products"}

\* what a status other than 200 leads to: an exception (product.py:65-66,
\* order.py:74-75, partner.py:52-53, discount.py:115-116), the end of the
\* loop with a warning (collection.py:116-118), or nothing, the listing
\* being left out (collection.py:68, 82)
OnFailure(kind) ==
  IF kind = "collection_products" THEN "break"
  ELSE IF kind = "collections" THEN "skip"
  ELSE "raise"

\* processed: the sizes of the pages whose records the loop took
NoFetch ==
  [kind |-> "none", pc |-> "idle", params |-> {}, page_info |-> 0,
   requests |-> << >>, responses |-> << >>, processed |-> << >>]

\* a fetch starts: the first request is prepared
StartFetch(kind, date_from) ==
  /\ fetch.pc = "idle"
  /\ fetch' = [NoFetch EXCEPT !.kind = kind, !.pc = "request",
                              !.params = FirstParams(kind, date_from)]
  /\ UNCHANGED <<schedVars, storeVars, run, inv, coll>>

\* where the loop goes after a response
AfterResponse(kind, sent, status_ok, n, links) ==
  IF kind = "collections"
    THEN IF sent = 1 THEN "request" ELSE "returned"
  ELSE IF ~status_ok
    THEN IF OnFailure(kind) = "raise" THEN "raised" ELSE "returned"
  ELSE IF n = 0 /\ StopsOnEmpty(kind) THEN "returned"
  ELSE IF HasNext(links) THEN "request"
  ELSE "returned"

\* requests.get(url, params=...) and what the loop does with the response
Respond(status_ok, n, links) ==
  /\ fetch.pc = "request"
  /\ Len(fetch.requests) < MaxRequests
  /\ LET sent == Len(fetch.requests) + 1
         to == AfterResponse(fetch.kind, sent, status_ok, n, links)
         follows == to = "request" /\ fetch.kind \in Paginated
     IN  fetch' =
           [fetch EXCEPT
              !.requests = Append(@, [params |-> fetch.params,
                                      page_info |-> fetch.page_info]),
              !.responses = Append(@, [status_ok |-> status_ok, n |-> n,
                                       next |-> HasNext(links)]),
              !.processed = IF status_ok /\ n > 0 THEN Append(@, n) ELSE @,
              !.pc = to,
              !.page_info = IF follows THEN NextToken(links) ELSE @,
              !.params = IF follows THEN NextParams(fetch.kind, fetch.params)
                         ELSE @]
  /\ UNCHANGED <<schedVars, storeVars, run, inv, coll>>

(***************************************************************************)
(* One import of products or orders, record by record (product.py:55-107,  *)
(* order.py:64-106).  The records of the upstream are numbered in upstream *)
(* order.                                                                  *)
(***************************************************************************)
\* pages the upstream has
MaxUpstreamPages == 2

\* the sizes of the pages of an upstream
Upstreams ==
  UNION {[1..n -> 1..MaxPage] : n \in 1..MaxUpstreamPages}

\* the batch sizes of a run, small against the pages as 25 and 50 are
\* against 250
RunBatchSizes == 1..MaxPage

NoRun ==
  [kind |-> "none", pc |-> "idle", batch_size |-> 0, upstream |-> << >>,
   page |-> 0, i |-> 0, open |-> << >>, slices |-> << >>, committed |-> << >>]

RECURSIVE SumTo(_, _)
SumTo(sizes, n) == IF n = 0 THEN 0 ELSE sizes[n] + SumTo(sizes, n - 1)

\* the number, in upstream order, of the record at index i of the page
RecordNo(upstream, page, i) == SumTo(upstream, page - 1) + i

BatchEnds_WithPage(n, batch_size, i, size) == i = size

\* products[i:i + batch_size] (product.py:79-80, order.py:86-87): the batch
\* ends with its batch_size-th record or with the page
BatchEnds(n, batch_size, i, size) == n = batch_size \/ i = size

\* import_shopify_products / import_shopify_orders is called
StartImport(kind, batch_size, upstream) ==
  /\ run.pc = "idle"
  /\ run' = [NoRun EXCEPT !.kind = kind, !.pc = "fetch",
                          !.batch_size = batch_size, !.upstream = upstream]
  /\ UNCHANGED <<schedVars, storeVars, fetch, inv, coll>>

\* the request for the next page (product.py:63-73, 99-107): past the last
\* page the loop ends (no next link, or an empty page); a status other than
\* 200 raises
FetchPage(status_ok) ==
  /\ run.pc = "fetch"
  /\ run' = IF run.page = Len(run.upstream)
              THEN [run EXCEPT !.pc = "returned"]
            ELSE IF ~status_ok THEN [run EXCEPT !.pc = "raised"]
            ELSE [run EXCEPT !.pc = "batch", !.page = @ + 1, !.i = 0]
  /\ UNCHANGED <<schedVars, storeVars, fetch, inv, coll>>

\* one record of the batch is processed in the open transaction
\* (product.py:139-157, order.py:132-156)
ProcessRecord ==
  /\ run.pc = "batch"
  /\ LET i == run.i + 1
         open == Append(run.open, RecordNo(run.upstream, run.page, i))
     IN  run' = [run EXCEPT
                   !.i = i, !.open = open,
                   !.pc = IF BatchEnds(Len(open), run.batch_size, i,
                                       run.upstream[run.page])
                            THEN "commit" ELSE "batch"]
  /\ UNCHANGED <<schedVars, storeVars, fetch, inv, coll>>

\* self.env.cr.commit() (product.py:90, order.py:94); when it raises, the
\* product import rolls back and goes on (92-96), the order import raises
\* (order.py:123-125)
CommitBatch(ok) ==
  /\ run.pc = "commit"
  /\ run' = [run EXCEPT
               !.open = << >>,
               !.slices = Append(@, run.open),
               !.committed = IF ok THEN Append(@, run.open) ELSE @,
               !.pc = IF ~ok /\ run.kind = "orders" THEN "raised"
                      ELSE IF run.i < run.upstream[run.page] THEN "batch"
                      ELSE "fetch"]
  /\ UNCHANGED <<schedVars, storeVars, fetch, inv, coll>>

\* the worker is stopped in the middle of the run: the open transaction is
\* lost
Interrupt ==
  /\ run.pc \in {"fetch", "batch", "commit"}
  /\ run' = [run EXCEPT !.open = << >>, !.pc = "interrupted"]
  /\ UNCHANGED <<schedVars, storeVars, fetch, inv, coll>>

(***************************************************************************)
(* The inventory sync of a location (inventory_location.py:114-249).       *)
(***************************************************************************)
\* inventory_location.py:132
max_retries == 3

\* syncs of the location in one behaviour
MaxSyncs == 2

\* the inventory levels a response lists, by inventory item
LevelLists == {<< >>, <<"i1">>, <<"i2", "i3">>}

\* what a request can meet: a timeout, or a response with its status, its
\* content type, whether its body is JSON, and the levels a JSON body lists
Timeout ==
  [status |-> 0, content_type |-> "", json |-> FALSE, levels |-> << >>]

Outcomes ==
  {Timeout}
  \cup [status : {429, 500, 503, 404, 401}, content_type : {"text/html"},
        json : {FALSE}, levels : {<< >>}]
  \cup [status : {200}, content_type : {"text/html", "text/plain", ""},
        json : {FALSE}, levels : {<< >>}]
  \cup [status : {200}, content_type : {"application/json", "text/plain"},
        json : {TRUE}, levels : LevelLists]

\* inventory_location.py:148-149  the test for an error page
IsErrorPage(o) ==
  o.content_type # "application/json" /\ o.content_type = "text/html"

\* what the retry loop does with the outcome of the request number attempt
\* (inventory_location.py:136-179): "success", "retry", or "raise"
OnOutcome_RetryForever(o, attempt) == "retry"

OnOutcome(o, attempt) ==
  IF o = Timeout
    THEN IF attempt < max_retries THEN "retry" ELSE "raise"
  ELSE IF o.status = 200
    THEN IF IsErrorPage(o) THEN "retry"
         ELSE IF o.json THEN "success"
         ELSE "raise"
  ELSE IF o.status = 429 \/ o.status >= 500 THEN "retry"
  ELSE "raise"

\* the lines of the location before the first sync
OldLines == <<"i0">>

NoSync ==
  [pc |-> "idle", syncs |-> 0, attempts |-> 0, outcomes |-> << >>,
   parsed |-> << >>, lines |-> OldLines, before |-> OldLines]

\* action_sync_inventory is called
StartSync ==
  /\ inv.pc \in {"idle", "returned", "raised"}
  /\ inv.syncs < MaxSyncs
  /\ inv' = [inv EXCEPT !.pc = "request", !.syncs = @ + 1, !.attempts = 0,
                        !.outcomes = << >>, !.parsed = << >>,
                        !.before = inv.lines]
  /\ UNCHANGED <<schedVars, storeVars, fetch, run, coll>>

\* inventory_location.py:181-229  after the loop: without a success the
\* call raises (182-183); without levels it returns a warning (185-194);
\* else the lines are unlinked (199) and one is created for each level
\* (205-226), and the cursor commits (229)
AfterLoop(success, levels, lines) ==
  IF ~success /\ levels = << >> THEN [pc |-> "raised", lines |-> lines]
  ELSE IF levels = << >> THEN [pc |-> "returned", lines |-> lines]
  ELSE [pc |-> "returned", lines |-> levels]

\* one request of the retry loop and what follows it: the next attempt, or
\* the rest of the call
Request(o) ==
  /\ inv.pc = "request"
  /\ LET attempt == inv.attempts + 1
         does == OnOutcome(o, attempt)
         sent == [inv EXCEPT
                    !.attempts = attempt,
                    !.outcomes = Append(@, o),
                    !.parsed = IF o.status = 200 /\ ~IsErrorPage(o)
                                 THEN Append(@, o) ELSE @]
     IN  inv' =
           IF does = "raise"
             THEN [sent EXCEPT !.pc = "raised"]
           ELSE IF does = "success"
             THEN LET end == AfterLoop(TRUE, o.levels, inv.lines)
                  IN  [sent EXCEPT !.pc = end.pc, !.lines = end.lines]
           ELSE IF attempt < max_retries
             THEN sent
           ELSE LET end == AfterLoop(FALSE, << >>, inv.lines)
                IN  [sent EXCEPT !.pc = end.pc, !.lines = end.lines]
  /\ UNCHANGED <<schedVars, storeVars, fetch, run, coll>>

(***************************************************************************)
(* The collections of an instance (collection.py:56-170), and the two      *)
(* callers that start their sync through a record named 'Sync Trigger'     *)
(* (scheduler.py:202-213, shopify_operation.py:226-241).                   *)
(***************************************************************************)
\* collection syncs and product fetches in one behaviour
MaxCollectionOps == 3

\* the instance of the collection
CollectionInstance == 1

\* the product.template records the fetch searches:
\* <<id, shopify_product_id, shopify_instance_id>>
LocalProducts == {<<1, "e1", 1>>, <<2, "e2", 1>>, <<3, "e3", 2>>}

\* collection.py:127-130  the search by external id and instance
search_template(shopify_product_id, inst) ==
  {p[1] : p \in {q \in LocalProducts :
                   q[2] = shopify_product_id /\ q[3] = inst}}

\* the external ids a page of products-in-collection lists
ProductPages ==
  {<< >>, <<"e1">>, <<"e2">>, <<"e3">>, <<"e4">>, <<"e1", "e2">>}

\* the request itself raises (collection.py:114, caught at 151)
Refused == [status |-> 0, products |-> << >>, next |-> FALSE]

\* what a request of the fetch can meet: a response with its status, the
\* products its body lists and whether its Link header has rel="next"
Responses ==
  {Refused, [status |-> 500, products |-> << >>, next |-> FALSE]}
  \cup [status : {200}, products : ProductPages, next : BOOLEAN]

\* collection.py:116-122, 136-144  the loop ends after this response
Stops(r) == r.status # 200 \/ r.products = << >> \/ ~r.next

\* the responses to the requests of one fetch: one for each request the
\* loop sends
Exchanges ==
  {<<r>> : r \in {q \in Responses : Stops(q)}}
  \cup {<<r, q>> : r \in {x \in Responses : ~Stops(x)},
                   q \in {x \in Responses : Stops(x)}}

\* collection.py:111-144  all_product_ids after the loop, from request k
\* on, and whether a request raised
RECURSIVE all_product_ids(_, _, _)
all_product_ids(responses, k, inst) ==
  IF k > Len(responses) THEN [ids |-> {}, raised |-> FALSE]
  ELSE IF responses[k] = Refused THEN [ids |-> {}, raised |-> TRUE]
  ELSE IF responses[k].status # 200 \/ responses[k].products = << >>
    THEN [ids |-> {}, raised |-> FALSE]
  ELSE LET r == responses[k]
           here == UNION {search_template(r.products[i], inst) :
                            i \in 1..Len(r.products)}
           rest == IF r.next THEN all_product_ids(responses, k + 1, inst)
                   ELSE [ids |-> {}, raised |-> FALSE]
       IN  [ids |-> here \cup rest.ids, raised |-> rest.raised]

\* collection.py:106-152  the product_ids of the collection after the
\* fetch: written only when the list is not empty (147-148); an exception
\* is logged and nothing is written (151-152)
_fetch_collection_products(product_ids, inst, responses) ==
  LET found == all_product_ids(responses, 1, inst)
  IN  IF found.raised \/ found.ids = {} THEN product_ids ELSE found.ids

\* what the first listing request of a sync can meet (collection.py:66-76):
\* status 200 with the collection listed, another status, or an exception;
\* and the second (collection.py:80-90): status 200 with no collection, or
\* an exception
CustomListings == {"listed", "status", "raised"}

SmartListings == {"none", "raised"}

\* collection.py:56-104  the collection after sync_from_shopify, whether
\* its products were fetched, and whether the call raised
sync_from_shopify(c, custom, smart, responses) ==
  IF custom = "raised"
    THEN [known |-> c.known, product_ids |-> c.product_ids,
          fetched |-> FALSE, raised |-> TRUE]
  ELSE IF custom = "listed"
    THEN [known |-> TRUE,
          product_ids |-> _fetch_collection_products(
                            c.product_ids, CollectionInstance, responses),
          fetched |-> TRUE, raised |-> smart = "raised"]
  ELSE [known |-> c.known, product_ids |-> c.product_ids,
        fetched |-> FALSE, raised |-> smart = "raised"]

\* the callers of the sync: the scheduler records the exception and goes
\* on to the end of its run, which is committed (scheduler.py:212-213,
\* 245-250); the wizard raises it again, and the transaction of the
\* request is rolled back (shopify_operation.py:239-241)
Callers == {"scheduler", "wizard"}

RolledBack(caller, raised) == caller = "wizard" /\ raised

NoCollections ==
  [ops |-> 0, placeholders |-> 0, known |-> FALSE, product_ids |-> {},
   last |-> [op |-> "none", caller |-> "none", responses |-> << >>,
             fetched |-> FALSE, outcome |-> "none"]]

\* a collection sync of the scheduler or of the wizard: the record named
\* 'Sync Trigger' is created, sync_from_shopify is called on it, and the
\* record is unlinked when the call returns
SyncCollections(caller, custom, smart, responses) ==
  /\ coll.ops < MaxCollectionOps
  /\ custom = "listed" <=> responses \in Exchanges
  /\ LET r == sync_from_shopify(coll, custom, smart, responses)
         kept == ~RolledBack(caller, r.raised)
     IN  coll' =
           [ops |-> coll.ops + 1,
            placeholders |-> IF r.raised /\ kept
                               THEN coll.placeholders + 1
                               ELSE coll.placeholders,
            known |-> IF kept THEN r.known ELSE coll.known,
            product_ids |-> IF kept THEN r.product_ids ELSE coll.product_ids,
            last |-> [op |-> "sync", caller |-> caller,
                      responses |-> responses,
                      fetched |-> kept /\ r.fetched,
                      outcome |-> IF r.raised THEN "raised" ELSE "returned"]]
  /\ UNCHANGED <<schedVars, storeVars, fetch, run, inv>>

\* collection.py:154-170  action_fetch_products on the collection
FetchProducts(responses) ==
  /\ coll.ops < MaxCollectionOps
  /\ coll.known <=> responses \in Exchanges
  /\ coll' =
       IF ~coll.known
         THEN [coll EXCEPT
                 !.ops = @ + 1,
                 !.last = [op |-> "fetch", caller |-> "user",
                           responses |-> << >>, fetched |-> FALSE,
                           outcome |-> "raised"]]
       ELSE [coll EXCEPT
               !.ops = @ + 1,
               !.product_ids = _fetch_collection_products(
                                 @, CollectionInstance, responses),
               !.last = [op |-> "fetch", caller |-> "user",
                         responses |-> responses, fetched |-> TRUE,
                         outcome |-> "returned"]]
  /\ UNCHANGED <<schedVars, storeVars, fetch, run, inv>>

(***************************************************************************)
(* Specifications of the scheduler.                                        *)
(***************************************************************************)
\* the sync_* flags of the schedules the guard is exercised with
GuardConfigs == {{"products", "orders"}}

InitSched(configs, flags, started) ==
  /\ running_syncs = [p \in Procs |-> FALSE]
  /\ db \in {[NewSchedule EXCEPT !.is_running = f] : f \in flags}
  /\ tx = [t \in Threads |-> NoTx]
  /\ pc = [t \in Threads |-> "idle"]
  /\ idx = [t \in Threads |-> 1]
  /\ results = [t \in Threads |-> <<>>]
  /\ outcome = [t \in Threads |-> "none"]
  /\ enabled \in configs
  /\ clock = 0
  /\ calls = started
  /\ restarts = 0
  /\ staleFromCrash = {}
  /\ InitStore
  /\ fetch = NoFetch
  /\ run = NoRun
  /\ inv = NoSync
  /\ coll = NoCollections

\* a schedule that was just created (is_running default False)
Init == InitSched(GuardConfigs, {FALSE}, 0)

Next ==
  \/ \E t \in Threads :
        \/ Guard(t)
        \/ CheckFlag(t)
        \/ SkipRelease(t)
        \/ MarkRunning(t)
        \/ CommitRunning(t)
        \/ SubSync(t)
        \/ RecordResult(t)
        \/ RecoverResult(t)
        \/ Release(t)
        \/ Return(t)
  \/ \E p \in Procs : Restart(p)
  \/ \E p \in Procs : InstallRestart(p)

\* every thread of every process may call the schedule's run
Spec == Init /\ [][Next]_vars

\* one invocation by one caller, for every combination of the sync_* flags,
\* on a schedule whose persisted flag is clear or was left set
InitRun == InitSched(SUBSET SubSyncs, BOOLEAN, MaxCalls - 1)

NextRun ==
  \/ Guard("a1")
  \/ CheckFlag("a1")
  \/ SkipRelease("a1")
  \/ MarkRunning("a1")
  \/ CommitRunning("a1")
  \/ SubSync("a1")
  \/ RecordResult("a1")
  \/ RecoverResult("a1")
  \/ Release("a1")
  \/ Return("a1")

SpecRun == InitRun /\ [][NextRun]_vars

\* the imports, webhook deliveries and exports, in any order
NextStore ==
  \/ \E inst \in Instances, page \in Pages(ProductPayloads) :
       ImportProducts(inst, page, product_batch_size, NoFault)
  \/ \E inst \in Instances, page \in Pages(CustomerPayloads) :
       ImportCustomers(inst, page, NoFault)
  \/ \E inst \in Instances, page \in Pages(OrderPayloads) :
       ImportOrders(inst, page, order_batch_size, NoFault)
  \/ \E topic \in WebhookTopics, d \in Domains :
       \E data \in PayloadsOf(topic) : Webhook(topic, data, d, "none")
  \/ \E id \in 1..MaxRecords, ok \in BOOLEAN, updated_at \in Timestamps :
       ExportProduct(id, ok, updated_at)
  \/ \E id \in 1..MaxRecords, ok \in BOOLEAN, updated_at \in Timestamps :
       ExportCustomer(id, ok, updated_at)
  \/ \E id \in 1..MaxRecords, ok \in BOOLEAN : ExportOrder(id, ok)

SpecStore == Init /\ [][NextStore]_vars

\* the deliveries of orders: bulk imports, in which the creation of the
\* lines of one order may fail, order webhooks, and the user's confirmation
NextOrders ==
  \/ \E inst \in Instances, page \in Pages(OrderPayloads) :
       \E fault \in Faults({"lines"}, Len(page)) :
         ImportOrders(inst, page, order_batch_size, fault)
  \/ \E topic \in {"orders/create", "orders/updated"}, d \in Domains :
       \E data \in OrderPayloads : Webhook(topic, data, d, "none")
  \/ \E id \in 1..MaxRecords : ConfirmOrder(id)

SpecOrders == Init /\ [][NextOrders]_vars

\* exports of products and customers, answered with success or not, with
\* or without a time of update, after imports that bring more records
NextExport ==
  \/ \E id \in 1..MaxRecords, ok \in BOOLEAN, updated_at \in Timestamps :
       ExportProduct(id, ok, updated_at)
  \/ \E id \in 1..MaxRecords, ok \in BOOLEAN, updated_at \in Timestamps :
       ExportCustomer(id, ok, updated_at)
  \/ \E inst \in Instances, page \in Pages(ProductPayloads) :
       ImportProducts(inst, page, product_batch_size, NoFault)

SpecExport == Init /\ [][NextExport]_vars

\* one import, against every upstream, with failing requests, failing
\* commits and an interruption at any point
NextImport ==
  \/ \E kind \in {"products", "orders"}, batch_size \in RunBatchSizes,
        upstream \in Upstreams : StartImport(kind, batch_size, upstream)
  \/ \E status_ok \in BOOLEAN : FetchPage(status_ok)
  \/ ProcessRecord
  \/ \E ok \in BOOLEAN : CommitBatch(ok)
  \/ Interrupt

SpecImport == Init /\ [][NextImport]_vars

\* the imports of customers, in which the mapping or the upsert of one
\* record may fail
NextCustomers ==
  \E inst \in Instances, page \in Pages(CustomerPayloads) :
    \E fault \in Faults({"mapping", "upsert"}, Len(page)) :
      ImportCustomers(inst, page, fault)

SpecCustomers == Init /\ [][NextCustomers]_vars

\* the syncs of the inventory of a location, against every outcome of
\* every request
NextInventory ==
  \/ StartSync
  \/ \E o \in Outcomes : Request(o)

SpecInventory == Init /\ [][NextInventory]_vars

\* the collection syncs of both callers and the product fetches of the
\* collection, against every outcome of every request
NextCollections ==
  \/ \E caller \in Callers, custom \in CustomListings, smart \in SmartListings,
        responses \in Exchanges \cup {<< >>} :
        SyncCollections(caller, custom, smart, responses)
  \/ \E responses \in Exchanges \cup {<< >>} : FetchProducts(responses)

SpecCollections == Init /\ [][NextCollections]_vars

\* webhook deliveries of every topic, from every domain, in which the log,
\* the mapping or the write may fail
NextWebhook ==
  \E topic \in WebhookTopics, d \in Domains, f \in WebhookFaults :
    \E data \in PayloadsOf(topic) : Webhook(topic, data, d, f)

SpecWebhook == Init /\ [][NextWebhook]_vars

\* the batch sizes of a call: one record a batch, or the default
BatchSizes(default) == {1, default}

\* imports in one behaviour of the failing imports
MaxBatchOps == 2

\* the imports of products and orders, in which one record of the page or
\* the commit of one batch may fail
NextBatch ==
  /\ ops < MaxBatchOps
  /\ \/ \E inst \in Instances, page \in Pages(ProductPayloads) :
          \E fault \in Faults({"mapping", "upsert", "db", "batch", "fetch"},
                              Len(page)),
             batch_size \in BatchSizes(product_batch_size) :
            ImportProducts(inst, page, batch_size, fault)
     \/ \E inst \in Instances, page \in Pages(OrderPayloads) :
          \E fault \in Faults({"mapping", "upsert", "db", "batch", "fetch"},
                              Len(page)),
             batch_size \in BatchSizes(order_batch_size) :
            ImportOrders(inst, page, batch_size, fault)

SpecBatch == Init /\ [][NextBatch]_vars

\* one fetch against an upstream that answers each request with any status,
\* an empty or a full page, and any Link header
NextFetch ==
  \/ \E kind \in FetchKinds, date_from \in BOOLEAN : StartFetch(kind, date_from)
  \/ \E status_ok \in BOOLEAN, n \in PageSizes :
       \E links \in LinkHeaders(Len(fetch.requests) + 1) :
         Respond(status_ok, n, links)

SpecFetch == Init /\ [][NextFetch]_vars




(***************************************************************************)
(* Properties of the scheduler.                                            *)
(***************************************************************************)
\* thread t holds the in-memory entry of its process
Holds(t) ==
  pc[t] \in {"check", "skip_release", "mark", "commit", "sub", "record",
             "recover", "release"}

\* thread t has passed both guards and has not yet released the entry
PassedGuard(t) == pc[t] \in {"sub", "record", "recover", "release"}

Skipped(t) == outcome[t] \in {"skipped_mem", "skipped_db"}

AnyFailed(r) == \E k \in 1..Len(r) : ~r[k].ok

AnyOk(r) == \E k \in 1..Len(r) : r[k].ok

\* C1: of two invocations of one process that overlap, at most one holds the
\* in-memory entry and so runs sub-syncs; an invocation that found the entry
\* taken has run no sub-sync.
C1_OneRunPerProcess ==
  \A t, u \in Threads :
    (t # u /\ ProcOf(t) = ProcOf(u)) =>
      /\ ~(Holds(t) /\ Holds(u))
      /\ (outcome[u] = "skipped_mem" => results[u] = <<>> /\ pc[u] = "ret")

C1_Witness ==
  \E t, u \in Threads :
    /\ t # u /\ ProcOf(t) = ProcOf(u)
    /\ pc[t] = "sub" /\ results[t] # <<>>
    /\ pc[u] = "ret" /\ outcome[u] = "skipped_mem"

\* C2: of the invocations of all processes, at most one is past the guard
\* (has read is_running = False and committed is_running = True) at a time.
C2_OneRunAcrossProcesses ==
  restarts = 0 => Cardinality({t \in Threads : PassedGuard(t)}) <= 1

\* C3: when an invocation of a process that was started again evaluates the
\* persisted flag, the flag left by the run the process terminated in has
\* been reset.
C3_StaleFlagReset ==
  \A t \in Threads : pc[t] = "check" => ProcOf(t) \notin staleFromCrash

\* C4: once every invocation has returned or raised (and no process was
\* terminated), the schedule is idle: no in-memory entry is held and the
\* persisted is_running is false.
C4_BackToIdle ==
  (restarts = 0 /\ \A t \in Threads : pc[t] = "idle") =>
    /\ \A p \in Procs : ~running_syncs[p]
    /\ ~db.is_running

LastRunFields(r) == <<r.last_run, r.last_run_status, r.last_run_message>>

\* C5: the last-run fields and is_running = False are written by one write:
\* a transaction holds either all four fields or none of the last-run fields,
\* an invocation that recorded its run holds all four, and the committed
\* record never gets new last-run fields with is_running true, nor (short of
\* a module install) is_running cleared with the last run unchanged.
C5_ClearedWithLastRun ==
  /\ [](\A t \in Threads :
         /\ (tx[t].dirty \cap {"last_run", "last_run_status", "last_run_message"} # {}
               => tx[t].dirty = Fields /\ ~tx[t].vals.is_running)
         /\ (pc[t] \in {"release", "ret"} /\ outcome[t] \in {"ran", "recovered"}
               => tx[t].dirty = Fields /\ ~View(t).is_running))
  /\ [][/\ (LastRunFields(db') # LastRunFields(db)
              => ~db'.is_running /\ db'.last_run # db.last_run)
        /\ (restarts' = restarts /\ db.is_running /\ ~db'.is_running
              => db'.last_run # db.last_run)]_vars

C5_Witness ==
  \E t \in Threads :
    /\ pc[t] = "ret" /\ outcome[t] = "ran"
    /\ View(t).last_run = clock /\ db.is_running

\* a step of an invocation that the guard skips
SkipStep(u) ==
  \/ pc[u] = "idle" /\ pc'[u] = "ret"
  \/ pc[u] = "check" /\ pc'[u] = "skip_release"
  \/ pc[u] = "skip_release" /\ pc'[u] = "ret"
  \/ pc[u] = "ret" /\ Skipped(u) /\ pc'[u] = "idle" /\ restarts' = restarts

\* C6: no step of a skipped invocation changes the committed record or any
\* transaction, runs a sub-sync, raises, starts another invocation, or
\* changes the in-memory entry that a running invocation holds; a skipped
\* invocation only returns.
C6_SkipChangesNothing ==
  [][\A u \in Threads :
       /\ SkipStep(u) =>
            /\ db' = db /\ tx' = tx /\ clock' = clock
            /\ results'[u] = <<>> /\ results[u] = <<>>
            /\ outcome'[u] # "raised"
            /\ (pc[u] # "idle" => calls' = calls)
            /\ \A t \in Threads \ {u} :
                 Holds(t) => running_syncs'[ProcOf(t)] = running_syncs[ProcOf(t)]
       /\ (pc[u] = "ret" /\ Skipped(u) => pc'[u] \in {"ret", "idle"})]_vars

C6_Witness ==
  \E t, u \in Threads :
    /\ t # u /\ pc[t] = "sub"
    /\ pc[u] = "ret" /\ outcome[u] = "skipped_db"
    /\ running_syncs[ProcOf(t)]

\* the enabled sub-syncs in the order of the method
EnabledOrder == SelectSeq(SubSyncOrder, LAMBDA s : s \in enabled)

Attempted(t) == [k \in 1..Len(results[t]) |-> results[t][k].sync]

\* C7: the sub-syncs a run has attempted are always the first ones of the
\* enabled sub-syncs in the fixed order, each once, and when the run records
\* its result they are all of them, whatever their outcomes.
C7_EnabledOnceInOrder ==
  \A t \in Threads :
    /\ Len(results[t]) <= Len(EnabledOrder)
    /\ Attempted(t) = SubSeq(EnabledOrder, 1, Len(results[t]))
    /\ (pc[t] \in {"record", "recover", "release"} => Attempted(t) = EnabledOrder)
    /\ (pc[t] = "sub" => SubSyncOrder[idx[t]] = EnabledOrder[Len(results[t]) + 1])

C7_Witness ==
  \E t \in Threads :
    /\ pc[t] = "record" /\ Len(results[t]) >= 3
    /\ ~results[t][1].ok /\ results[t][2].ok /\ ~results[t][3].ok
    /\ "products" \notin enabled /\ "discounts" \in enabled

StatusAggregates(s, r) ==
  /\ (s = "success") = ~AnyFailed(r)
  /\ (s = "partial") = (AnyFailed(r) /\ AnyOk(r))
  /\ (s = "failed") = (AnyFailed(r) /\ ~AnyOk(r))

\* C8 as stated: whatever write recorded the run, the recorded status is the
\* aggregate of the sub-sync outcomes.
C8_StatusAggregatesAlways ==
  \A t \in Threads :
    (pc[t] \in {"release", "ret"} /\ outcome[t] \in {"ran", "recovered"}) =>
      StatusAggregates(View(t).last_run_status, results[t])

\* C8, amended: the status recorded by the completion write is the aggregate
\* of the sub-sync outcomes; when that write raised, the status recorded by
\* the except clause is 'failed' whatever the outcomes.
C8_StatusAggregates ==
  \A t \in Threads :
    pc[t] \in {"release", "ret"} =>
      /\ (outcome[t] = "ran" =>
            StatusAggregates(View(t).last_run_status, results[t]))
      /\ (outcome[t] = "recovered" => View(t).last_run_status = "failed")

C8_Witness ==
  \E t \in Threads :
    /\ pc[t] = "ret" /\ outcome[t] = "ran"
    /\ View(t).last_run_status = "partial"
    /\ Len(results[t]) = Len(SubSyncOrder)


(***************************************************************************)
(* Properties of the synced entities.                                      *)
(***************************************************************************)
\* the records of a model that carry a pair
Carrying(kind, inst, ext) ==
  IF kind = "products"
    THEN {x \in product_template :
            x.shopify_instance_id = inst /\ x.shopify_product_id = ext}
  ELSE IF kind = "customers"
    THEN {x \in res_partner :
            x.shopify_instance_id = inst /\ x.shopify_customer_id = ext}
  ELSE {x \in sale_order :
            x.shopify_instance_id = inst /\ x.shopify_order_id = ext}

Kinds == {"products", "customers", "orders"}

\* C9: in every reachable state, whatever imports, webhook deliveries and
\* exports ran, no two records of one model carry the same instance and
\* the same (set) external id.
C9_UniqueExternalId ==
  \A kind \in Kinds, inst \in Instances, n \in UpstreamIds :
    Cardinality(Carrying(kind, inst, Str(n))) <= 1

\* the last two operations were the same bulk import of the same page for
\* the same instance, one right after the other, and the page's records
\* were new to the store before the first
ImportedTwice ==
  /\ Len(history) = 2
  /\ history[1].kind = history[2].kind
  /\ history[1].inst = history[2].inst
  /\ history[1].page = history[2].page
  /\ history[1].fault = NoFault /\ history[2].fault = NoFault
  /\ history[1].fresh

C11_SameLinesAsFirstImport ==
  \A e \in first_lines : Len(RecordOf(sale_order, e[1]).order_line) = e[2]

\* C11: an order that got lines from the import that made it keeps that
\* number of lines whatever is imported later, and a step changes the lines
\* of an existing order only when it is a bulk import of orders and the
\* order is in state draft or sent and has no line at all.
C11_LinesOnlyWhenNone ==
  /\ [](\A e \in first_lines :
          e[2] > 0 => Len(RecordOf(sale_order, e[1]).order_line) = e[2])
  /\ [][\A o \in sale_order :
          RecordOf(sale_order', o.id).order_line # o.order_line =>
            /\ o.order_line = << >>
            /\ o.state \in {"draft", "sent"}
            /\ last'.op = "import" /\ last'.kind = "orders"]_vars

\* an order with a line was imported again, with the same page, and updated
C11_Witness ==
  /\ \E e \in first_lines : e[2] > 0
  /\ Len(history) = 2
  /\ history[1].kind = "orders" /\ history[2].kind = "orders"
  /\ history[1].page = history[2].page /\ history[1].inst = history[2].inst
  /\ history[2].updated = Len(history[2].page)
  /\ history[2].fault = NoFault

\* C12: no step, be it a bulk import of orders or an order webhook, changes
\* a field or a line of an order whose state is past draft and sent.
C12_ConfirmedUntouched ==
  [][\A o \in sale_order :
       o.state \notin {"draft", "sent"} => RecordOf(sale_order', o.id) = o]_vars

(***************************************************************************)
(* The paginated fetches.                                                  *)
(***************************************************************************)
\* C13: in every paginated fetch, a request sent after a page token was
\* taken from a Link header carries page_info as its only query parameter.
C13_CursorOnly ==
  fetch.kind \in Paginated =>
    \A i \in 1..Len(fetch.requests) :
      fetch.requests[i].page_info # 0 =>
        fetch.requests[i].params = {"page_info"}

\* C14: a paginated fetch sends no request after an empty page or after a
\* response without a rel="next" link; with pages of 100, 100 and 0 records
\* it takes exactly the two pages that have records.
C14_StopsAtEnd ==
  fetch.kind \in Paginated =>
    \A i \in 1..Len(fetch.responses) :
      LET r == fetch.responses[i]
      IN  r.status_ok /\ (r.n = 0 \/ ~r.next) =>
            /\ Len(fetch.requests) = i
            /\ fetch.pc = "returned"
            /\ (i = 3 /\ fetch.responses[1].n = 100 /\ fetch.responses[2].n = 100
                  /\ r.n = 0 => fetch.processed = <<100, 100>>)

\* C15: a response with a status other than success ends the fetch: no
\* request follows it and the operation raises instead of returning.
C15_FailureRaises ==
  \A i \in 1..Len(fetch.responses) :
    ~fetch.responses[i].status_ok =>
      /\ Len(fetch.requests) = i
      /\ fetch.pc = "raised"


(***************************************************************************)
(* Failures inside an import.                                              *)
(***************************************************************************)
\* the page without its records lo..hi
Without(page, lo, hi) ==
  SubSeq(page, 1, lo - 1) \o SubSeq(page, hi + 1, Len(page))

\* the first and the last index of the batch that holds record k
BatchLo(k, batch_size) == ((k - 1) \div batch_size) * batch_size + 1

BatchHi(k, batch_size, n) == Min(BatchLo(k, batch_size) + batch_size - 1, n)

\* what the import of the page's other records does to the store as it is
\* before the step, when nothing fails
ImportOf(kind, page, inst, batch_size) ==
  IF kind = "products"
    THEN import_shopify_products(Store, page, inst, batch_size, NoFault)
    ELSE import_shopify_orders(Store, page, inst, batch_size, NoFault)

\* the step's call left the tables of its model and its counts as ref has them
SameAs(ref) ==
  /\ last'.kind = "products" => product_template' = ref.store.product_template
  /\ last'.kind = "orders" => sale_order' = ref.store.sale_order
  /\ last'.created = ref.created
  /\ last'.updated = ref.updated

\* C16: in an import of products or orders, when the mapping or the upsert
\* of one record raises, the other records of the page are upserted and
\* committed as if the record were not there, and the counts leave out
\* exactly that record.
C16_RecordIsolation ==
  [][(/\ last'.op = "import"
      /\ last'.kind \in {"products", "orders"}
      /\ last'.fault.kind \in {"mapping", "upsert", "db"})
       => /\ last'.result = "returned"
          /\ SameAs(ImportOf(last'.kind,
                             Without(last'.data, last'.fault.at, last'.fault.at),
                             last'.inst, last'.batch_size))]_vars

\* C17: in an import of products or orders, when the commit of one batch
\* fails, that batch's writes are rolled back and it adds nothing to the
\* counts, the other batches are committed, and the import returns.
C17_BatchIsolation ==
  [][(/\ last'.op = "import"
      /\ last'.kind \in {"products", "orders"}
      /\ last'.fault.kind = "batch")
       => /\ last'.result = "returned"
          /\ SameAs(ImportOf(last'.kind,
                             Without(last'.data,
                                     BatchLo(last'.fault.at, last'.batch_size),
                                     BatchHi(last'.fault.at, last'.batch_size,
                                             Len(last'.data))),
                             last'.inst, last'.batch_size))]_vars

(***************************************************************************)
(* Webhook deliveries.                                                     *)
(***************************************************************************)
\* the product a products/delete delivery of this step finds
Deleted ==
  IF last'.op = "webhook" /\ last'.kind = "products/delete" /\ last'.inst # 0
       /\ last'.result = "true"
    THEN search_product(product_template, Str(last'.data[1].id), last'.inst)
    ELSE 0

\* C18: a delivery never removes a product record; a products/delete for a
\* known (instance, external id) sets the product found inactive and leaves
\* every other product as it was; for an unknown id no product changes.
C18_SoftDelete ==
  [][/\ \A x \in product_template : \E y \in product_template' : y.id = x.id
     /\ (last'.op = "webhook" /\ last'.kind = "products/delete") =>
          /\ Cardinality(product_template') = Cardinality(product_template)
          /\ \A x \in product_template :
               RecordOf(product_template', x.id) =
                 IF x.id = Deleted THEN [x EXCEPT !.active = FALSE] ELSE x]_vars

C18_Witness ==
  /\ last.op = "webhook" /\ last.kind = "products/delete"
  /\ last.result = "true"
  /\ \E x \in product_template :
       /\ ~x.active
       /\ x.shopify_product_id = Str(last.data[1].id)
       /\ x.shopify_instance_id = last.inst

\* the topics process_webhook has no handler for
NoHandler(topic) ==
  TopicPrefix(topic) \notin {"products/", "orders/", "customers/",
                             "inventory_levels/", "refunds/"}

\* C19: process_webhook answers every delivery with True or False and never
\* raises; a delivery whose domain resolves to no instance, or whose topic
\* has no handler, changes no product, customer or order.
C19_AlwaysAcknowledged ==
  [][last'.op = "webhook" =>
       /\ last'.result \in {"true", "false"}
       /\ (last'.inst = 0 => last'.result = "false")
       /\ (last'.inst = 0 \/ NoHandler(last'.kind)) =>
            /\ product_template' = product_template
            /\ res_partner' = res_partner
            /\ sale_order' = sale_order]_vars

C19_Witness ==
  /\ last.op = "webhook" /\ last.inst = 0 /\ last.result = "false"
  /\ last.kind = "products/create"
  /\ \E i \in 1..Len(sync_log) : sync_log[i].message = "app/uninstalled"

\* the domain of an instance
DomainOf(inst) == CHOOSE d \in Domains : InstanceOfDomain(d) = inst

\* the tables of the synced entities
Entities(S) == <<S.product_template, S.res_partner, S.sale_order>>

\* C20: from the store as it is, the delivery of a product or an order
\* through a create/update webhook leaves the products, customers and orders
\* as the bulk import of a page that holds only that record does.
C20_WebhookAsImport ==
  \A inst \in Instances :
    /\ \A r \in ProductPayloads, topic \in {"products/create", "products/update"} :
         Entities(process_webhook(Store, topic, r, DomainOf(inst), "none").store)
           = Entities(import_shopify_products(Store, <<r>>, inst,
                                              product_batch_size, NoFault).store)
    /\ \A r \in OrderPayloads, topic \in {"orders/create", "orders/updated"} :
         Entities(process_webhook(Store, topic, r, DomainOf(inst), "none").store)
           = Entities(import_shopify_orders(Store, <<r>>, inst,
                                            order_batch_size, NoFault).store)

(***************************************************************************)
(* Exports.                                                                *)
(***************************************************************************)
\* the external id of the record of a model
ExtIdOf(kind, P, C, id) ==
  IF kind = "products" THEN RecordOf(P, id).shopify_product_id
  ELSE RecordOf(C, id).shopify_customer_id

\* C21: over the exports of one product or customer at most one call sends
\* a create; a call creates only while the record holds no external id and
\* updates otherwise; a call answered with success stores the returned id;
\* a call answered without success raises and leaves the id as it was.
C21_OneCreate ==
  /\ [](\A p \in posts : p[1] \in {"products", "customers"} => p[3] <= 1)
  /\ [][(/\ last'.op = "export"
         /\ last'.kind \in {"products", "customers"}
         /\ last'.data[1].method # "NONE")
          => LET d == last'.data[1]
                 before == ExtIdOf(last'.kind, product_template, res_partner, d.id)
                 after == ExtIdOf(last'.kind, product_template', res_partner', d.id)
             IN  /\ d.method = "POST" <=> before = ""
                 /\ d.ok => after # "" /\ last'.result = "returned"
                 /\ ~d.ok => after = before /\ last'.result = "raised"]_vars

(***************************************************************************)
(* The log of the operations.                                              *)
(***************************************************************************)
\* C22: a bulk import or an export that ends in an error has appended, when
\* the error reaches its caller, an entry of shopify.sync.log with status
\* failed or partial.
C22_ErrorLogged ==
  [][(last'.op \in {"import", "export"} /\ last'.result = "raised")
       => /\ Len(sync_log') = Len(sync_log) + 1
          /\ sync_log'[Len(sync_log')].status \in {"failed", "partial"}]_vars

(***************************************************************************)
(* The batches of an import.                                               *)
(***************************************************************************)
IsPrefix(a, b) == Len(a) <= Len(b) /\ SubSeq(b, 1, Len(a)) = a

\* C23: during an import of products or orders at most batch_size processed
\* records are uncommitted, and no step, a failed page, a failed commit and
\* an interruption included, takes a committed batch away.
C23_BoundedAndDurable ==
  /\ [](Len(run.open) <= run.batch_size)
  /\ [][run.pc # "idle" => IsPrefix(run.committed, run'.committed)]_vars

C23_Witness ==
  /\ run.pc \in {"raised", "interrupted"}
  /\ run.page = 2
  /\ run.batch_size = 2
  /\ Len(run.committed) >= 2
  /\ \E k \in 1..Len(run.committed) : Len(run.committed[k]) = 2

RECURSIVE Concat(_)
Concat(seqs) == IF seqs = << >> THEN << >> ELSE Head(seqs) \o Concat(Tail(seqs))

\* C24: in an import, every batch but the last of the run holds exactly
\* batch_size records, and the batches, one after the other, are the
\* fetched records in upstream order.
C24_FixedSizeBatches ==
  /\ \A k \in 1..(Len(run.slices) - 1) : Len(run.slices[k]) = run.batch_size
  /\ LET all == Concat(run.slices) IN \A n \in 1..Len(all) : all[n] = n

\* C25: in the import of customers, when the mapping or the upsert of one
\* record raises, the import still returns and every other fetched record
\* is upserted as if the record were not there.
C25_CustomerIsolation ==
  [][(/\ last'.op = "import"
      /\ last'.kind = "customers"
      /\ last'.fault.kind \in {"mapping", "upsert"})
       => /\ last'.result = "returned"
          /\ res_partner' =
               import_shopify_customers(
                 Store, Without(last'.data, last'.fault.at, last'.fault.at),
                 last'.inst, NoFault).store.res_partner]_vars

(***************************************************************************)
(* The inventory sync of a location.                                       *)
(***************************************************************************)
\* the outcomes the retry loop is for: a timeout, a rate limit, a server
\* error, an HTML error page with status 200
Transient(o) ==
  \/ o = Timeout
  \/ o.status = 429
  \/ o.status >= 500
  \/ o.status = 200 /\ o.content_type = "text/html"

\* a status of the client's fault other than the rate limit
NonRetryable(o) == o.status >= 400 /\ o.status < 500 /\ o.status # 429

\* C26: action_sync_inventory sends at most 3 requests; a transient outcome
\* (429, 5xx, error page, timeout) uses up one attempt and is followed by
\* another request unless it was the third, after which the call raises; a
\* non-retryable status ends the call with an error at once.
C26_BoundedRetries ==
  /\ inv.attempts = Len(inv.outcomes)
  /\ inv.attempts <= 3
  /\ \A k \in 1..Len(inv.outcomes) :
       /\ Transient(inv.outcomes[k]) =>
            /\ k < 3 => (Len(inv.outcomes) > k \/ inv.pc = "request")
            /\ k = 3 => inv.pc = "raised"
       /\ NonRetryable(inv.outcomes[k]) =>
            k = Len(inv.outcomes) /\ inv.pc = "raised"

C26_Witness ==
  /\ inv.pc = "raised"
  /\ Len(inv.outcomes) = 3
  /\ inv.outcomes[1].status = 429
  /\ inv.outcomes[2].status = 503
  /\ inv.outcomes[3] = Timeout

\* C27: a response with status 200 whose content type is not JSON, whatever
\* it is, is retried within the bound, and its body is never parsed.
C27_NonJsonRetried ==
  \A k \in 1..Len(inv.outcomes) :
    LET o == inv.outcomes[k]
    IN  (o.status = 200 /\ o.content_type # "application/json") =>
          /\ k < 3 => (Len(inv.outcomes) > k \/ inv.pc = "request")
          /\ k = 3 => inv.pc = "raised"
          /\ \A n \in 1..Len(inv.parsed) : inv.parsed[n] # o

\* C30: when the fetch ends in an error the lines of the location are as
\* they were before the call; after a successful fetch the location holds
\* one line for each fetched level and none of the lines it had.
C30_LinesReplacedOnSuccess ==
  /\ inv.pc = "raised" => inv.lines = inv.before
  /\ inv.pc = "returned" =>
       inv.lines = inv.outcomes[Len(inv.outcomes)].levels

\* the external ids the responses of a fetch list
Listed(responses) ==
  UNION {{responses[k].products[i] : i \in 1..Len(responses[k].products)} :
           k \in 1..Len(responses)}

\* every request of the fetch was answered with status 200
Served(responses) ==
  \A k \in 1..Len(responses) : responses[k].status = 200

\* C28: after _fetch_collection_products completes for a collection, with
\* every page served, the products of the collection are the local products
\* of the instance whose external ids the upstream pages list: none when the
\* pages list no product, or no product that exists locally
C28_ProductsAsListed ==
  (coll.last.fetched /\ Served(coll.last.responses)) =>
    coll.product_ids =
      {p[1] : p \in {q \in LocalProducts :
                       /\ q[3] = CollectionInstance
                       /\ q[2] \in Listed(coll.last.responses)}}

\* C29: after a collection sync of the scheduler or of the wizard ends,
\* whether it returned or raised, no record named 'Sync Trigger' is in the
\* store
C29_NoPlaceholderLeft ==
  coll.last.op = "sync" => coll.placeholders = 0

====
